---------------------------- MODULE Spec2Model ----------------------------
(***************************************************************************)
(* RoboKen simulator: the task orchestrator and executor                   *)
(* (RoboKenSimulator, TaskExecutor), the error handler (ErrorHandler and   *)
(* its recovery strategies) and the pure classifier classify_error, all of *)
(* src/error_handling_validation.py.                                       *)
(*                                                                         *)
(* Text is modelled as a sequence of one-character strings, so that        *)
(* str.lower() and the substring test `keyword in message` are computed    *)
(* character by character, as the code does.                               *)
(***************************************************************************)
EXTENDS Integers, Sequences, FiniteSets, TLC

VARIABLES
    \* ---- clock (time.time() / datetime.now()), in milliseconds
    clock,
    \* ---- RoboKenSimulator / TaskExecutor
    tasks,            \* every Task object created so far, by object identity
    task_queue,       \* RoboKenSimulator.task_queue: identities, front first
    db,               \* rows of the sqlite table tasks, keyed by task id
    execution_stats,  \* TaskExecutor.execution_stats
    callers,          \* the logical flows that call the orchestrator
    call,             \* per flow: the coroutine frame of its current call
    ret,              \* per flow: how its last finished call ended
    cpu,              \* the flow running between two suspension points
    \* ---- ErrorHandler
    error_log,            \* ErrorHandler.error_log
    recovery_strategies,  \* ErrorHandler.recovery_strategies
    error_count,          \* ErrorHandler.error_count
    hcallers,             \* the logical flows that call handle_error
    hcall,                \* per flow: the frame of its handle_error call
    hret,                 \* per flow: the last returned ErrorContext
    alerts,               \* error ids passed to _send_critical_alert
    \* ---- classify_error as a pure function
    exception,        \* the message of the exception being classified
    classified,       \* the (category, severity) returned, or None
    \* ---- get_error_statistics
    error_stats,      \* the statistics last returned, or None
    \* ---- N8nWorkflowEngine
    workflow_objs,      \* every Workflow object created so far, by identity
    workflows,          \* N8nWorkflowEngine.workflows: id -> identity
    node_registry,      \* N8nWorkflowEngine.node_registry: tag -> class
    execution_history,  \* N8nWorkflowEngine.execution_history
    wcallers,           \* the logical flows that call the engine
    wcall,              \* per flow: the frame of its execute_workflow call
    wret,               \* per flow: how its last engine call ended
    \* ---- InputValidator.validate_command as a pure function
    vcommand,         \* the command being validated
    validation,       \* the (valid, reason) pair returned, or None
    \* ---- SecretsManager
    cache,            \* SecretsManager.cache: secret name -> secret
    upstream,         \* what the secrets service holds, by secret name
    service_calls,    \* get_secret_value calls made so far
    sret              \* how the last get_secret call ended

taskVars == <<tasks, task_queue, db, execution_stats, callers, call, ret, cpu>>
errVars == <<error_log, recovery_strategies, error_count, hcallers, hcall,
             hret, alerts>>
clsVars == <<exception, classified>>
qryVars == <<error_stats>>
wfVars == <<workflow_objs, workflows, node_registry, execution_history,
           wcallers, wcall, wret>>
valVars == <<vcommand, validation>>
secVars == <<cache, upstream, service_calls, sret>>
vars == <<clock, taskVars, errVars, clsVars, qryVars, wfVars, valVars, secVars>>

\* Optional[...] values: None, or Some(x)
None == <<>>
Some(x) == <<x>>
Get(o) == o[1]

-----------------------------------------------------------------------------
(* Text *)

UpperCase == <<"A","B","C","D","E","F","G","H","I","J","K","L","M",
               "N","O","P","Q","R","S","T","U","V","W","X","Y","Z">>
LowerCase == <<"a","b","c","d","e","f","g","h","i","j","k","l","m",
               "n","o","p","q","r","s","t","u","v","w","x","y","z">>

\* str.lower(), one character
LowerChar(ch) ==
    IF \E i \in 1..Len(UpperCase) : UpperCase[i] = ch
    THEN LowerCase[CHOOSE i \in 1..Len(UpperCase) : UpperCase[i] = ch]
    ELSE ch

\* str.lower()
Lower(s) == [i \in 1..Len(s) |-> LowerChar(s[i])]

\* `k in s` for two strings
Contains(s, k) ==
    \E i \in 1..(Len(s) - Len(k) + 1) : SubSeq(s, i, i + Len(k) - 1) = k

\* any(keyword in s for keyword in ks)
ContainsAny(s, ks) == \E j \in 1..Len(ks) : Contains(s, ks[j])

\* " ".join(words)
RECURSIVE Join(_)
Join(words) ==
    IF Len(words) = 0 THEN <<>>
    ELSE IF Len(words) = 1 THEN words[1]
    ELSE words[1] \o <<" ">> \o Join(Tail(words))

-----------------------------------------------------------------------------
(* ErrorHandler.classify_error *)

NetworkKeywords ==
    << <<"c","o","n","n","e","c","t","i","o","n">>,
       <<"n","e","t","w","o","r","k">>,
       <<"t","i","m","e","o","u","t">>,
       <<"u","n","r","e","a","c","h","a","b","l","e">> >>
AuthKeywords ==
    << <<"a","u","t","h">>,
       <<"p","e","r","m","i","s","s","i","o","n">>,
       <<"u","n","a","u","t","h","o","r","i","z","e","d">>,
       <<"f","o","r","b","i","d","d","e","n">> >>
ValidationKeywords ==
    << <<"i","n","v","a","l","i","d">>,
       <<"v","a","l","i","d","a","t","i","o","n">>,
       <<"f","o","r","m","a","t">>,
       <<"p","a","r","s","e">> >>
ResourceKeywords ==
    << <<"m","e","m","o","r","y">>,
       <<"d","i","s","k">>,
       <<"r","e","s","o","u","r","c","e">>,
       <<"l","i","m","i","t">> >>
TimeoutKeyword == <<"t","i","m","e","o","u","t">>

ErrorCategory == {"network", "authentication", "validation", "resource",
                  "timeout", "permission", "data", "system"}
ErrorSeverity == {"low", "medium", "high", "critical"}

\* a classifier that tests the rules in another order (validation first)
ClassifyValidationFirst(message) ==
    LET error_message == Lower(message) IN
    IF ContainsAny(error_message, ValidationKeywords)
    THEN <<"validation", "low">>
    ELSE IF ContainsAny(error_message, NetworkKeywords)
    THEN <<"network", "medium">>
    ELSE IF ContainsAny(error_message, AuthKeywords)
    THEN <<"authentication", "high">>
    ELSE IF ContainsAny(error_message, ResourceKeywords)
    THEN <<"resource", "high">>
    ELSE IF Contains(error_message, TimeoutKeyword)
    THEN <<"timeout", "medium">>
    ELSE <<"system", "critical">>

\* classify_error(exception), on str(exception)
ClassifyError(message) ==
    LET error_message == Lower(message) IN
    IF ContainsAny(error_message, NetworkKeywords)
    THEN <<"network", "medium">>
    ELSE IF ContainsAny(error_message, AuthKeywords)
    THEN <<"authentication", "high">>
    ELSE IF ContainsAny(error_message, ValidationKeywords)
    THEN <<"validation", "low">>
    ELSE IF ContainsAny(error_message, ResourceKeywords)
    THEN <<"resource", "high">>
    ELSE IF Contains(error_message, TimeoutKeyword)
    THEN <<"timeout", "medium">>
    ELSE <<"system", "critical">>

-----------------------------------------------------------------------------
(* Exception messages *)

\* the words exception messages are made of: every keyword of
\* classify_error in some letter case, and words that hold none
Vocabulary ==
    { <<"C","o","n","n","e","c","t","i","o","n">>,
      <<"N","E","T","W","O","R","K">>,
      <<"t","i","m","e","o","u","t">>,
      <<"U","n","r","e","a","c","h","a","b","l","e">>,
      <<"A","u","t","h">>,
      <<"P","E","R","M","I","S","S","I","O","N">>,
      <<"u","n","a","u","t","h","o","r","i","z","e","d">>,
      <<"F","o","r","b","i","d","d","e","n">>,
      <<"I","n","v","a","l","i","d">>,
      <<"V","a","l","i","d","a","t","i","o","n">>,
      <<"f","o","r","m","a","t">>,
      <<"P","a","r","s","e">>,
      <<"m","e","m","o","r","y">>,
      <<"D","i","s","k">>,
      <<"R","e","s","o","u","r","c","e">>,
      <<"l","i","m","i","t">>,
      <<"f","a","i","l","e","d">>,
      <<"t","i","m","e","d">>,
      <<"o","u","t">>,
      <<"i","n","f","o","r","m","a","t","i","o","n">> }

\* the longest message, in words
MaxWords == 2

\* the messages of at most n words
MessagesOf(n) ==
    { Join(ws) : ws \in UNION { [1..k -> Vocabulary] : k \in 0..n } }

Messages == MessagesOf(MaxWords)

-----------------------------------------------------------------------------
(* classify_error applied to one exception *)

ClassifyStep ==
    /\ classified = None
    /\ classified' = Some(ClassifyError(exception))
    /\ UNCHANGED <<clock, taskVars, errVars, exception, qryVars, wfVars, secVars, valVars>>

-----------------------------------------------------------------------------
(* InputValidator.validate_command *)

\* the characters str.strip() removes, of those the commands are made of
Whitespace == {" ", "\t", "\n"}

\* str.strip()
Strip(s) ==
    LET inked == { i \in 1..Len(s) : s[i] \notin Whitespace }
    IN IF inked = {} THEN <<>>
       ELSE SubSeq(s, CHOOSE i \in inked : \A j \in inked : i <= j,
                      CHOOSE i \in inked : \A j \in inked : i >= j)

\* the longest command accepted, in characters
MaxCommandLength == 1000

\* dangerous_keywords
DangerousKeywords ==
    << <<"r","m"," ","-","r","f">>,
       <<"f","o","r","m","a","t">>,
       <<"d","e","l","e","t","e"," ","s","y","s","t","e","m">> >>

\* the reasons validate_command gives
ReasonEmpty == [text |-> "Command cannot be empty", keyword |-> None]
ReasonTooLong ==
    [text |-> "Command too long (max 1000 characters)", keyword |-> None]
ReasonDangerous(keyword) ==
    [text |-> "Command contains dangerous keyword: ",
     keyword |-> Some(keyword)]

\* a validation that compares the command as typed with the keywords
ValidateCommandCaseSensitive(cmd) ==
    IF Len(cmd) = 0 \/ Len(Strip(cmd)) = 0
    THEN <<FALSE, Some(ReasonEmpty)>>
    ELSE IF Len(cmd) > MaxCommandLength
    THEN <<FALSE, Some(ReasonTooLong)>>
    ELSE LET hits == { j \in 1..Len(DangerousKeywords) :
                         Contains(cmd, DangerousKeywords[j]) }
         IN IF hits # {}
            THEN <<FALSE, Some(ReasonDangerous(DangerousKeywords[
                     CHOOSE j \in hits : \A k \in hits : j <= k]))>>
            ELSE <<TRUE, None>>

\* validate_command(command): the (valid, reason) pair; the loop over
\* dangerous_keywords returns at the first keyword found
ValidateCommand(cmd) ==
    IF Len(cmd) = 0 \/ Len(Strip(cmd)) = 0
    THEN <<FALSE, Some(ReasonEmpty)>>
    ELSE IF Len(cmd) > MaxCommandLength
    THEN <<FALSE, Some(ReasonTooLong)>>
    ELSE LET hits == { j \in 1..Len(DangerousKeywords) :
                         Contains(Lower(cmd), DangerousKeywords[j]) }
         IN IF hits # {}
            THEN <<FALSE, Some(ReasonDangerous(DangerousKeywords[
                     CHOOSE j \in hits : \A k \in hits : j <= k]))>>
            ELSE <<TRUE, None>>

\* the words commands are made of: the parts of every dangerous keyword in
\* some letter case, a word that holds one inside it, a harmless word and
\* a blank one
CommandVocabulary ==
    { <<"r","m">>, <<"-","R","F">>, <<"F","o","r","m","a","t">>,
      <<"D","e","l","e","t","e">>, <<"S","Y","S","T","E","M">>,
      <<"i","n","f","o","r","m","a","t","i","o","n">>,
      <<"o","p","e","n">>, <<"\t">> }

\* the longest command, in words, and the longest that is also filled up
MaxCommandWords == 3
MaxPaddedWords == 1

\* the sentences of at most n words
Sentences(n) ==
    { Join(ws) : ws \in UNION { [1..k -> CommandVocabulary] : k \in 0..n } }

\* s followed by as many ch as bring it to n characters
Pad(s, ch, n) ==
    IF Len(s) >= n THEN s ELSE s \o [i \in 1..(n - Len(s)) |-> ch]

\* the commands validated: every sentence of at most MaxCommandWords
\* words, and every sentence of at most MaxPaddedWords words filled up with
\* letters to the longest length accepted and to one character more, and
\* filled up with blanks to one character more
Commands ==
    Sentences(MaxCommandWords)
      \cup { Pad(s, "x", MaxCommandLength) : s \in Sentences(MaxPaddedWords) }
      \cup { Pad(s, "x", MaxCommandLength + 1) :
               s \in Sentences(MaxPaddedWords) }
      \cup { Pad(s, " ", MaxCommandLength + 1) :
               s \in Sentences(MaxPaddedWords) }

\* validate_command applied to one command
ValidateStep ==
    /\ validation = None
    /\ validation' = Some(ValidateCommand(vcommand))
    /\ UNCHANGED <<clock, taskVars, errVars, clsVars, qryVars, wfVars, secVars,
                   vcommand>>

-----------------------------------------------------------------------------
(* AIModelInterface: the intent-extraction collaborator *)

KwOpen == <<"o","p","e","n">>
KwLaunch == <<"l","a","u","n","c","h">>
KwSearch == <<"s","e","a","r","c","h">>
KwFind == <<"f","i","n","d">>
KwSend == <<"s","e","n","d">>
KwEmail == <<"e","m","a","i","l">>
KwDownload == <<"d","o","w","n","l","o","a","d">>
KwUpload == <<"u","p","l","o","a","d">>

\* _extract_intent(command)
ExtractIntent(command) ==
    LET command_lower == Lower(command) IN
    IF Contains(command_lower, KwOpen) \/ Contains(command_lower, KwLaunch)
    THEN "open_application"
    ELSE IF Contains(command_lower, KwSearch) \/ Contains(command_lower, KwFind)
    THEN "search"
    ELSE IF Contains(command_lower, KwSend) \/ Contains(command_lower, KwEmail)
    THEN "send_email"
    ELSE IF Contains(command_lower, KwDownload)
    THEN "download"
    ELSE IF Contains(command_lower, KwUpload)
    THEN "upload"
    ELSE "general_automation"

\* the confidence process_natural_language reports, in hundredths (0.95)
AIConfidence == 95

\* what process_natural_language(command) returns when it does not raise
\* (the entity map is not modelled: nothing reads it)
ProcessNaturalLanguage(command) ==
    [intent |-> ExtractIntent(command), confidence |-> AIConfidence]

-----------------------------------------------------------------------------
(* Task, AutomationResult *)

TaskType == {"web_automation", "mobile_automation", "desktop_automation",
             "data_processing", "api_integration", "workflow_automation"}
TaskStatus == {"pending", "running", "completed", "failed",
               "requires_approval"}

\* the (description, task_type) pairs submitted: one per task type
Requests ==
    { [description |-> <<"O","p","e","n"," ","C","h","r","o","m","e">>,
       type |-> "web_automation"],
      [description |-> <<"D","o","w","n","l","o","a","d"," ","r","e","p","o","r","t">>,
       type |-> "mobile_automation"],
      [description |-> <<"P","r","o","c","e","s","s"," ","d","a","t","a">>,
       type |-> "desktop_automation"],
      [description |-> <<"F","i","n","d"," ","d","a","t","a">>,
       type |-> "data_processing"],
      [description |-> <<"U","p","l","o","a","d"," ","r","e","p","o","r","t">>,
       type |-> "api_integration"],
      [description |-> <<"S","e","n","d"," ","e","m","a","i","l">>,
       type |-> "workflow_automation"] }

\* the requests the flows of Spec submit: two task types, whose handlers
\* return outcomes of different shapes
CoreRequests ==
    { req \in Requests : req.type \in {"web_automation", "workflow_automation"} }

\* the messages of the faults the collaborator or a handler raises
FaultMessages ==
    { <<"C","o","n","n","e","c","t","i","o","n"," ","f","a","i","l","e","d">>,
      <<"I","n","v","a","l","i","d"," ","f","o","r","m","a","t">> }

\* the most tasks submitted in one behaviour
MaxTasks == 2
\* the last instant of the clock, in milliseconds
MaxClock == 1

\* Task(...) as submit_task builds it
NewTask(now, req) ==
    [id |-> now, type |-> req.type, description |-> req.description,
     status |-> "pending", created_at |-> now, completed_at |-> None,
     result |-> None, error |-> None]

\* the first three digits of a positive number's decimal form
RECURSIVE LeadingDigits(_)
LeadingDigits(n) == IF n < 1000 THEN n ELSE LeadingDigits(n \div 10)

\* 'wf_' + task.id[:8], task.id being "task_" and the decimal milliseconds
WorkflowIdOf(task) == [prefix |-> "wf_task_", digits |-> LeadingDigits(task.id)]

\* the branch of execute_task's dispatch taken for a task type
Dispatch(type) ==
    IF type = "web_automation" THEN "_execute_web_automation"
    ELSE IF type = "mobile_automation" THEN "_execute_mobile_automation"
    ELSE IF type = "desktop_automation" THEN "_execute_desktop_automation"
    ELSE IF type = "workflow_automation" THEN "_execute_workflow_automation"
    ELSE "_execute_general_automation"

\* what each _execute_* handler returns when it does not raise
HandlerOutput(handler, task, nl_result) ==
    IF handler = "_execute_web_automation" THEN
        [action |-> "web_navigation", intent |-> nl_result.intent,
         result |-> "Successfully completed web automation",
         steps_executed |-> 5]
    ELSE IF handler = "_execute_mobile_automation" THEN
        [action |-> "mobile_interaction", intent |-> nl_result.intent,
         result |-> "Successfully completed mobile automation",
         steps_executed |-> 4]
    ELSE IF handler = "_execute_desktop_automation" THEN
        [action |-> "desktop_operation", intent |-> nl_result.intent,
         result |-> "Successfully completed desktop automation",
         steps_executed |-> 3]
    ELSE IF handler = "_execute_workflow_automation" THEN
        [action |-> "workflow_execution", workflow_id |-> WorkflowIdOf(task),
         result |-> "Successfully completed workflow automation",
         integrations_used |-> <<"gmail", "slack", "sheets">>]
    ELSE
        [action |-> "general_automation", intent |-> nl_result.intent,
         result |-> "Successfully completed automation",
         steps_executed |-> 2]

-----------------------------------------------------------------------------
(* TaskExecutor.execute_task: what it writes *)

\* task.status = TaskStatus.RUNNING
StartTask(task) == [task EXCEPT !.status = "running"]

\* a success branch that does not store the result on the task
CompleteTaskNoResult(task, result, now) ==
    [task EXCEPT !.status = "completed", !.completed_at = Some(now)]

\* the success branch's writes to the task
CompleteTask(task, result, now) ==
    [task EXCEPT !.status = "completed", !.completed_at = Some(now),
                 !.result = Some(result)]

\* the except branch with the fault text dropped
FailTaskNoText(task, e) == [task EXCEPT !.status = "failed"]

\* the except branch's writes to the task
FailTask(task, e) ==
    [task EXCEPT !.status = "failed", !.error = Some(e)]

\* the success branch's update of execution_stats (elapsed times are not
\* modelled: total_execution_time is left out)
StatsSuccess(stats) ==
    [stats EXCEPT !.total_tasks = @ + 1, !.successful_tasks = @ + 1]

\* an except branch that counts the failure but not the task
StatsFailureUncounted(stats) ==
    [stats EXCEPT !.failed_tasks = @ + 1]

\* the except branch's update of execution_stats
StatsFailure(stats) ==
    [stats EXCEPT !.total_tasks = @ + 1, !.failed_tasks = @ + 1]

\* get_stats(): the running totals and the success rate, successful_tasks /
\* total_tasks if total_tasks > 0 else 0, as the fraction
\* <<numerator, denominator>> (average_execution_time is not modelled)
GetStats(stats) ==
    [total_tasks |-> stats.total_tasks,
     successful_tasks |-> stats.successful_tasks,
     failed_tasks |-> stats.failed_tasks,
     success_rate |-> IF stats.total_tasks > 0
                      THEN <<stats.successful_tasks, stats.total_tasks>>
                      ELSE <<0, 1>>]

\* AutomationResult(success=True, ...), but for execution_time
SuccessResult(task, result, nl_result) ==
    [success |-> TRUE, task_id |-> task.id, output |-> Some(result),
     error |-> None,
     metadata |-> Some([ai_confidence |-> nl_result.confidence])]

\* AutomationResult(success=False, ...), but for execution_time
FailureResult(task, e) ==
    [success |-> FALSE, task_id |-> task.id, output |-> None,
     error |-> Some(e), metadata |-> None]

-----------------------------------------------------------------------------
(* The sqlite table tasks (id TEXT PRIMARY KEY, ...) *)

\* the columns written for a task, but for its key
RowOf(task) ==
    [type |-> task.type, description |-> task.description,
     status |-> task.status, created_at |-> task.created_at,
     completed_at |-> task.completed_at, result |-> task.result,
     error |-> task.error]

\* INSERT INTO tasks VALUES (...): the database may fail (fault), and it
\* refuses a second row with the same primary key
SqlInsert(d, task, fault) ==
    IF fault THEN [exc |-> Some("OperationalError"), db |-> d]
    ELSE IF task.id \in DOMAIN d
    THEN [exc |-> Some("IntegrityError"), db |-> d]
    ELSE [exc |-> None,
          db |-> [k \in DOMAIN d \cup {task.id} |->
                     IF k = task.id THEN RowOf(task) ELSE d[k]]]

\* UPDATE tasks SET status, completed_at, result, error WHERE id = ?
SqlUpdate(d, task, fault) ==
    IF fault THEN [exc |-> Some("OperationalError"), db |-> d]
    ELSE [exc |-> None,
          db |-> [k \in DOMAIN d |->
                     IF k = task.id
                     THEN [d[k] EXCEPT !.status = task.status,
                                       !.completed_at = task.completed_at,
                                       !.result = task.result,
                                       !.error = task.error]
                     ELSE d[k]]]

\* a _save_task that catches what the database raises
SaveTaskCatching(d, task, fault) ==
    [exc |-> None, db |-> SqlInsert(d, task, fault).db]

\* _save_task(task): nothing is caught
SaveTask(d, task, fault) == SqlInsert(d, task, fault)

\* _update_task(task): nothing is caught
UpdateTask(d, task, fault) == SqlUpdate(d, task, fault)

-----------------------------------------------------------------------------
(* RoboKenSimulator and TaskExecutor: the calls *)

\* pc: "idle"    no call in progress
\*     "ai"      execute_task awaits process_natural_language
\*     "handler" execute_task awaits the _execute_* handler
\*     "update"  execute_task has returned into execute_next_task
\*     "loop"    execute_all_tasks tests `while self.task_queue`
\* queued is a history field: the queue when execute_all_tasks was called
IdleFrame ==
    [pc |-> "idle", op |-> "none", task |-> 0,
     nl_result |-> None, handler |-> None, fault |-> None, result |-> None,
     results |-> <<>>, queued |-> <<>>]

\* how a call ended: sql_exc (what sqlite raised in it) and queued (the
\* queue when it was called) are history fields
NoReturn == [op |-> "none", outcome |-> "none", value |-> None,
             sql_exc |-> None, queued |-> <<>>]

\* the flow c may run: no other flow is between two suspension points
Free(c) == cpu \in {None, c}

\* the call of flow c ends: it returns value, or raises it
Finish(c, op, outcome, value, sql_exc) ==
    /\ call' = [call EXCEPT ![c] = IdleFrame]
    /\ ret' = [ret EXCEPT ![c] = [op |-> op, outcome |-> outcome,
                                  value |-> value, sql_exc |-> sql_exc,
                                  queued |-> call[c].queued]]
    /\ cpu' = None

\* a pop that leaves the task in the queue
PopFrontKeeping(queue) == [task |-> Head(queue), queue |-> queue]

\* self.task_queue.pop(0)
PopFront(queue) == [task |-> Head(queue), queue |-> Tail(queue)]

\* a submit_task that persists the task first and queues it only when the
\* save has succeeded
SubmitTaskSavingFirst(c) ==
    /\ Free(c) /\ call[c].pc = "idle"
    /\ Len(tasks) < MaxTasks
    /\ \E req \in CoreRequests, fault \in BOOLEAN :
         LET task == NewTask(clock, req)
             t == Len(tasks) + 1
             raised == SqlInsert(db, task, fault).exc
             saved == SaveTask(db, task, fault)
         IN /\ tasks' = Append(tasks, task)
            /\ db' = saved.db
            /\ IF saved.exc # None
               THEN /\ task_queue' = task_queue
                    /\ Finish(c, "submit_task", "raised", saved.exc, raised)
               ELSE /\ task_queue' = Append(task_queue, t)
                    /\ Finish(c, "submit_task", "returned", Some(t), raised)
    /\ UNCHANGED <<clock, execution_stats, callers, errVars, clsVars, qryVars, wfVars, secVars, valVars>>

\* submit_task(description, task_type)
SubmitTask(c) ==
    /\ Free(c) /\ call[c].pc = "idle"
    /\ Len(tasks) < MaxTasks
    /\ \E req \in CoreRequests, fault \in BOOLEAN :
         LET task == NewTask(clock, req)
             t == Len(tasks) + 1
             raised == SqlInsert(db, task, fault).exc
             saved == SaveTask(db, task, fault)
         IN /\ tasks' = Append(tasks, task)
            /\ task_queue' = Append(task_queue, t)
            /\ db' = saved.db
            /\ IF saved.exc # None
               THEN Finish(c, "submit_task", "raised", saved.exc, raised)
               ELSE Finish(c, "submit_task", "returned", Some(t), raised)
    /\ UNCHANGED <<clock, execution_stats, callers, errVars, clsVars, qryVars, wfVars, secVars, valVars>>

\* a start that reads the front task and leaves it in the queue while
\* execute_task is awaited
StartWithoutPop(c, op) ==
    LET t == Head(task_queue)
    IN /\ task_queue' = task_queue
       /\ tasks' = [tasks EXCEPT ![t] = StartTask(@)]
       /\ call' = [call EXCEPT ![c].pc = "ai", ![c].op = op, ![c].task = t,
                               ![c].fault = None,
                               ![c].nl_result = None, ![c].handler = None,
                               ![c].result = None]
       /\ cpu' = None

\* execute_next_task from the pop to execute_task's first await
PopAndStart(c, op) ==
    LET popped == PopFront(task_queue)
        t == popped.task
    IN /\ task_queue' = popped.queue
       /\ tasks' = [tasks EXCEPT ![t] = StartTask(@)]
       /\ call' = [call EXCEPT ![c].pc = "ai", ![c].op = op, ![c].task = t,
                               ![c].fault = None,
                               ![c].nl_result = None, ![c].handler = None,
                               ![c].result = None]
       /\ cpu' = None

\* execute_next_task(), called by a flow
ExecuteNextTask(c) ==
    /\ Free(c) /\ call[c].pc = "idle"
    /\ IF task_queue = <<>>
       THEN /\ Finish(c, "execute_next_task", "returned", None, None)
            /\ UNCHANGED <<tasks, task_queue>>
       ELSE /\ PopAndStart(c, "execute_next_task")
            /\ UNCHANGED ret
    /\ UNCHANGED <<clock, db, execution_stats, callers, errVars, clsVars, qryVars, wfVars, secVars, valVars>>

\* execute_all_tasks(), called by a flow: results = []
ExecuteAllTasks(c) ==
    /\ Free(c) /\ call[c].pc = "idle"
    /\ call' = [call EXCEPT ![c].pc = "loop", ![c].op = "execute_all_tasks",
                            ![c].results = <<>>, ![c].queued = task_queue]
    /\ cpu' = c
    /\ UNCHANGED <<clock, tasks, task_queue, db, execution_stats, callers,
                   ret, errVars, clsVars, qryVars, wfVars, secVars, valVars>>

\* execute_all_tasks: `while self.task_queue`, then execute_next_task
LoopStep(c) ==
    /\ Free(c) /\ call[c].pc = "loop"
    /\ IF task_queue = <<>>
       THEN /\ Finish(c, "execute_all_tasks", "returned",
                      Some(call[c].results), None)
            /\ UNCHANGED <<tasks, task_queue>>
       ELSE /\ PopAndStart(c, "execute_all_tasks")
            /\ UNCHANGED ret
    /\ UNCHANGED <<clock, db, execution_stats, callers, errVars, clsVars, qryVars, wfVars, secVars, valVars>>

\* an except branch that hands the fault to an ErrorHandler first
TaskRaisesHandled(c, e) ==
    LET t == call[c].task
        cs == ClassifyError(e)
    IN /\ tasks' = [tasks EXCEPT ![t] = FailTask(@, e)]
       /\ execution_stats' = StatsFailure(execution_stats)
       /\ call' = [call EXCEPT
                     ![c].pc = "update", ![c].fault = Some(e),
                     ![c].result = Some(FailureResult(tasks[t], e))]
       /\ cpu' = c
       /\ error_count' = error_count + 1
       /\ error_log' = Append(error_log,
                              [category |-> cs[1], severity |-> cs[2],
                               message |-> e])
       /\ UNCHANGED <<recovery_strategies, hcallers, hcall, hret, alerts>>

\* execute_task's except branch, for a fault with text e: the task and the
\* executor's totals are written, and nothing else
TaskRaises(c, e) ==
    LET t == call[c].task
    IN /\ tasks' = [tasks EXCEPT ![t] = FailTask(@, e)]
       /\ execution_stats' = StatsFailure(execution_stats)
       /\ call' = [call EXCEPT
                     ![c].pc = "update", ![c].fault = Some(e),
                     ![c].result = Some(FailureResult(tasks[t], e))]
       /\ cpu' = c
       /\ UNCHANGED errVars

\* process_natural_language returns or raises; on return execute_task
\* dispatches on the task type and awaits the handler
AIStep(c) ==
    /\ Free(c) /\ call[c].pc = "ai"
    /\ \/ /\ call' = [call EXCEPT
                        ![c].pc = "handler",
                        ![c].nl_result = Some(ProcessNaturalLanguage(
                                           tasks[call[c].task].description)),
                        ![c].handler = Some(Dispatch(
                                           tasks[call[c].task].type))]
          /\ cpu' = None
          /\ UNCHANGED <<tasks, execution_stats, errVars>>
       \/ \E e \in FaultMessages : TaskRaises(c, e)
    /\ UNCHANGED <<clock, task_queue, db, callers, ret, clsVars, qryVars, wfVars, secVars, valVars>>

\* the handler returns or raises; on return execute_task takes its
\* success branch
HandlerStep(c) ==
    /\ Free(c) /\ call[c].pc = "handler"
    /\ \/ LET t == call[c].task
              result == HandlerOutput(Get(call[c].handler), tasks[t],
                                      Get(call[c].nl_result))
              done == CompleteTask(tasks[t], result, clock)
          IN /\ tasks' = [tasks EXCEPT ![t] = done]
             /\ execution_stats' = StatsSuccess(execution_stats)
             /\ call' = [call EXCEPT
                           ![c].pc = "update",
                           ![c].result = Some(SuccessResult(done, result,
                                              Get(call[c].nl_result)))]
             /\ cpu' = c
             /\ UNCHANGED errVars
       \/ \E e \in FaultMessages : TaskRaises(c, e)
    /\ UNCHANGED <<clock, task_queue, db, callers, ret, clsVars, qryVars, wfVars, secVars, valVars>>

\* execute_next_task after execute_task: _update_task(task), return result;
\* in execute_all_tasks the result is appended to results
UpdateStep(c) ==
    /\ Free(c) /\ call[c].pc = "update"
    /\ \E fault \in BOOLEAN :
         LET task == tasks[call[c].task]
             raised == SqlUpdate(db, task, fault).exc
             updated == UpdateTask(db, task, fault)
         IN /\ db' = updated.db
            /\ IF updated.exc # None
               THEN Finish(c, call[c].op, "raised", updated.exc, raised)
               ELSE IF call[c].op = "execute_next_task"
               THEN Finish(c, call[c].op, "returned", call[c].result, raised)
               ELSE /\ call' = [call EXCEPT
                                  ![c].pc = "loop",
                                  ![c].results =
                                     Append(@, Get(call[c].result))]
                    /\ cpu' = c
                    /\ UNCHANGED ret
    /\ UNCHANGED <<clock, tasks, task_queue, execution_stats, callers,
                   errVars, clsVars, qryVars, wfVars, secVars, valVars>>

\* a millisecond passes
TickMs ==
    /\ clock < MaxClock
    /\ clock' = clock + 1
    /\ UNCHANGED <<taskVars, errVars, clsVars, qryVars, wfVars, secVars, valVars>>

-----------------------------------------------------------------------------
(* ErrorHandler.handle_error and the recovery strategies *)

\* milliseconds in a second: the clock is read in milliseconds by
\* submit_task and in whole seconds by handle_error
MsPerSecond == 1000

\* the messages of the exceptions handed to handle_error: a network fault
\* (medium), a validation fault (low) and a system fault (critical)
HandledMessages ==
    { <<"C","o","n","n","e","c","t","i","o","n"," ","f","a","i","l","e","d">>,
      <<"I","n","v","a","l","i","d"," ","f","o","r","m","a","t">>,
      <<"t","i","m","e","d"," ","o","u","t">> }

\* the most retries a registered RetryStrategy is configured with
MaxRetries == 2
\* the most handle_error calls in one behaviour
MaxErrors == 2

\* the base delays a RetryStrategy is configured with, in seconds
BaseDelays == {2}

\* RetryStrategy(max_retries, base_delay), FallbackStrategy(fallback), and
\* the base RecoveryStrategy, whose attempt_recovery raises
Strategies ==
    { [kind |-> "retry", max_retries |-> n, base_delay |-> d] :
        n \in 0..MaxRetries, d \in BaseDelays }
    \cup { [kind |-> "fallback"], [kind |-> "base"] }

\* the categories a strategy is registered for
RegisteredCategories == {"network", "system"}

\* 2 ** n
RECURSIVE Pow2(_)
Pow2(n) == IF n = 0 THEN 1 ELSE 2 * Pow2(n - 1)

\* a backoff that sleeps the base delay every time
RetryDelayFixed(strategy, attempt) == strategy.base_delay

\* delay = self.base_delay * (2 ** attempt)
RetryDelay(strategy, attempt) == strategy.base_delay * Pow2(attempt)

\* an id built from the clock second alone
ErrorIdBySecond(count, now) == [count |-> 0, second |-> now \div MsPerSecond]

\* f"err_{self.error_count}_{int(datetime.now().timestamp())}"
ErrorId(count, now) == [count |-> count, second |-> now \div MsPerSecond]

\* classify_error on the handled messages, computed once
Classification == [m \in HandledMessages |-> ClassifyError(m)]

\* ErrorContext(...) as handle_error builds it (the stack trace and the
\* metadata are not modelled: nothing reads them)
NewContext(count, message, now) ==
    LET cs == Classification[message] IN
    [error_id |-> ErrorId(count, now), category |-> cs[1],
     severity |-> cs[2], message |-> message, timestamp |-> now,
     recovery_attempted |-> FALSE, recovery_successful |-> FALSE]

\* a test that forgets the operation
ShouldRecoverWithoutOperation(category, strategies, operation) ==
    category \in DOMAIN strategies

\* `category in self.recovery_strategies and operation`
ShouldRecover(category, strategies, operation) ==
    category \in DOMAIN strategies /\ operation

\* register_recovery_strategy(category, strategy)
RegisterRecoveryStrategy ==
    \E category \in RegisteredCategories, strategy \in Strategies :
      /\ recovery_strategies' =
           [k \in DOMAIN recovery_strategies \cup {category} |->
              IF k = category THEN strategy ELSE recovery_strategies[k]]
      /\ UNCHANGED <<clock, taskVars, clsVars, qryVars, wfVars, secVars, valVars, error_log, error_count,
                     hcallers, hcall, hret, alerts>>

\* the frame of a handle_error call: pc is
\*   "sleep"    RetryStrategy awaits asyncio.sleep(delay)
\*   "op"       RetryStrategy awaits operation()
\*   "fallback" FallbackStrategy awaits fallback_operation()
\* history fields: registered and operation (what handle_error tested),
\* invoked (the strategy called), raised (attempt_recovery raised), delays
\* (what was slept), op_calls and op_faults (calls of operation() and how
\* many of them raised), fallback_calls and fallback_faults
Frame(pc, context, strategy, registered, operation) ==
    [pc |-> pc, context |-> context, strategy |-> strategy, attempt |-> 0,
     registered |-> registered, operation |-> operation,
     invoked |-> None, raised |-> FALSE,
     delays |-> <<>>, op_calls |-> 0, op_faults |-> 0,
     fallback_calls |-> 0, fallback_faults |-> 0]

NoCall == [pc |-> "idle"]

\* an alert for every context, whatever its severity
SendAlertAlways(sent, context, log) ==
    Append(sent, [error_id |-> context.error_id, history |-> Len(log)])

\* `if severity == ErrorSeverity.CRITICAL: await _send_critical_alert`;
\* log is self.error_log at that point, and history (its length) is a
\* history field of the alert
SendCriticalAlert(sent, context, log) ==
    IF context.severity = "critical"
    THEN Append(sent, [error_id |-> context.error_id, history |-> Len(log)])
    ELSE sent

\* a return that keeps only the newest context in the history
LogAndReturnReplacing(h, frame, context) ==
    /\ error_log' = <<context>>
    /\ alerts' = SendCriticalAlert(alerts, context, <<context>>)
    /\ hret' = [hret EXCEPT ![h] = [frame EXCEPT !.pc = "returned",
                                                 !.context = context]]
    /\ hcall' = [hcall EXCEPT ![h] = NoCall]

\* handle_error from error_log.append(context) to its return
LogAndReturn(h, frame, context) ==
    LET log == Append(error_log, context)
    IN /\ error_log' = log
       /\ alerts' = SendCriticalAlert(alerts, context, log)
       /\ hret' = [hret EXCEPT ![h] = [frame EXCEPT !.pc = "returned",
                                                    !.context = context]]
       /\ hcall' = [hcall EXCEPT ![h] = NoCall]

\* the strategy has returned success (a boolean)
Recovered(h, frame, success) ==
    LogAndReturn(h, frame,
                 [frame.context EXCEPT !.recovery_successful = success])

\* a handler that takes a raising strategy for a successful one
RecoveryRaisedIgnored(context) ==
    [context EXCEPT !.recovery_successful = TRUE]

\* `except Exception as recovery_error`: the strategy raised
RecoveryRaised(context) ==
    [context EXCEPT !.recovery_successful = FALSE]

\* an attempt that puts the context in the history before it sleeps
StartAttemptLogging(h, frame, attempt) ==
    /\ hcall' = [hcall EXCEPT ![h] =
                   [frame EXCEPT !.pc = "sleep", !.attempt = attempt,
                      !.delays = Append(@, RetryDelay(frame.strategy,
                                                      attempt))]]
    /\ error_log' = Append(error_log, frame.context)
    /\ UNCHANGED <<alerts, hret>>

\* RetryStrategy.attempt_recovery reaches asyncio.sleep(delay)
StartAttempt(h, frame, attempt) ==
    /\ hcall' = [hcall EXCEPT ![h] =
                   [frame EXCEPT !.pc = "sleep", !.attempt = attempt,
                      !.delays = Append(@, RetryDelay(frame.strategy,
                                                      attempt))]]
    /\ UNCHANGED <<error_log, alerts, hret>>

\* handle_error(exception, operation) up to its first await
HandleError(h) ==
    /\ hcall[h].pc = "idle"
    /\ error_count < MaxErrors
    /\ \E message \in HandledMessages, operation \in BOOLEAN :
         LET context == NewContext(error_count + 1, message, clock)
             registered == context.category \in DOMAIN recovery_strategies
             strategy == IF registered
                         THEN recovery_strategies[context.category]
                         ELSE None
             idle == Frame("idle", context, None, registered, operation)
         IN /\ error_count' = error_count + 1
            /\ IF ShouldRecover(context.category, recovery_strategies,
                                operation)
               THEN LET attempted ==
                          [context EXCEPT !.recovery_attempted = TRUE]
                        frame ==
                          [Frame("idle", attempted, strategy, registered,
                                 operation) EXCEPT !.invoked = Some(strategy.kind)]
                    IN IF strategy.kind = "retry"
                       THEN IF strategy.max_retries = 0
                            THEN Recovered(h, frame, FALSE)
                            ELSE StartAttempt(h, frame, 0)
                       ELSE IF strategy.kind = "fallback"
                       THEN /\ hcall' = [hcall EXCEPT ![h] =
                                           [frame EXCEPT
                                              !.pc = "fallback",
                                              !.fallback_calls = @ + 1]]
                            /\ UNCHANGED <<error_log, alerts, hret>>
                       ELSE LogAndReturn(h, [frame EXCEPT !.raised = TRUE],
                                         RecoveryRaised(attempted))
               ELSE LogAndReturn(h, idle, context)
    /\ UNCHANGED <<clock, taskVars, clsVars, qryVars, wfVars, secVars, valVars, recovery_strategies,
                   hcallers>>

\* asyncio.sleep(delay) is over: RetryStrategy calls operation()
SleepDone(h) ==
    /\ hcall[h].pc = "sleep"
    /\ hcall' = [hcall EXCEPT ![h].pc = "op", ![h].op_calls = @ + 1]
    /\ UNCHANGED <<clock, taskVars, clsVars, qryVars, wfVars, secVars, valVars, error_log,
                   recovery_strategies, error_count, hcallers, hret, alerts>>

\* a loop that goes on to the last attempt whatever operation() did
AttemptOutcomeNoEarlyReturn(raises, strategy, attempt) ==
    IF attempt = strategy.max_retries - 1
    THEN IF raises THEN "return_false" ELSE "return_true"
    ELSE "next_attempt"

\* the body of RetryStrategy's loop after `await operation()`: return True,
\* or in the except branch return False on the last attempt, else loop
AttemptOutcome(raises, strategy, attempt) ==
    IF ~raises THEN "return_true"
    ELSE IF attempt = strategy.max_retries - 1 THEN "return_false"
    ELSE "next_attempt"

\* operation() returns or raises
OperationDone(h) ==
    /\ hcall[h].pc = "op"
    /\ \E raises \in BOOLEAN :
         LET frame == [hcall[h] EXCEPT
                         !.op_faults = IF raises THEN @ + 1 ELSE @]
             outcome == AttemptOutcome(raises, frame.strategy, frame.attempt)
         IN IF outcome = "next_attempt"
            THEN StartAttempt(h, frame, frame.attempt + 1)
            ELSE Recovered(h, frame, outcome = "return_true")
    /\ UNCHANGED <<clock, taskVars, clsVars, qryVars, wfVars, secVars, valVars, recovery_strategies,
                   error_count, hcallers>>

\* a fallback that reports success whatever happened
FallbackOutcomeAlwaysTrue(raises) == TRUE

\* FallbackStrategy.attempt_recovery after `await fallback_operation()`:
\* return True, or False in the except branch
FallbackOutcome(raises) == ~raises

\* fallback_operation() returns or raises
FallbackDone(h) ==
    /\ hcall[h].pc = "fallback"
    /\ \E raises \in BOOLEAN :
         LET frame == [hcall[h] EXCEPT
                         !.fallback_faults = IF raises THEN @ + 1 ELSE @]
         IN Recovered(h, frame, FallbackOutcome(raises))
    /\ UNCHANGED <<clock, taskVars, clsVars, qryVars, wfVars, secVars, valVars, recovery_strategies,
                   error_count, hcallers>>

\* d[k] = d.get(k, 0) + 1
Bump(d, k) ==
    [x \in DOMAIN d \cup {k} |->
       IF x = k THEN (IF k \in DOMAIN d THEN d[k] ELSE 0) + 1 ELSE d[x]]

\* get_error_statistics' loop `for error in self.error_log`, from the
\* locals acc on
RECURSIVE TallyErrors(_, _)
TallyErrors(log, acc) ==
    IF log = <<>> THEN acc
    ELSE LET error == Head(log)
             attempted == IF error.recovery_attempted THEN 1 ELSE 0
             succeeded == IF error.recovery_attempted
                             /\ error.recovery_successful THEN 1 ELSE 0
         IN TallyErrors(Tail(log),
              [by_category |-> Bump(acc.by_category, error.category),
               by_severity |-> Bump(acc.by_severity, error.severity),
               recovery_attempts |-> acc.recovery_attempts + attempted,
               recovery_successes |-> acc.recovery_successes + succeeded])

\* a rate that counts the recoveries that failed
RecoveryRateOfFailures(successes, attempts) ==
    IF attempts > 0 THEN <<attempts - successes, attempts>> ELSE <<0, 1>>

\* recovery_successes / recovery_attempts if recovery_attempts > 0 else 0.0,
\* as the fraction <<numerator, denominator>>
RecoveryRate(successes, attempts) ==
    IF attempts > 0 THEN <<successes, attempts>> ELSE <<0, 1>>

\* the dict get_error_statistics returns for the history log
ErrorStatistics(log) ==
    IF log = <<>>
    THEN [total_errors |-> 0, by_category |-> [k \in {} |-> 0],
          by_severity |-> [k \in {} |-> 0], recovery_rate |-> <<0, 1>>]
    ELSE LET t == TallyErrors(log, [by_category |-> [k \in {} |-> 0],
                                    by_severity |-> [k \in {} |-> 0],
                                    recovery_attempts |-> 0,
                                    recovery_successes |-> 0])
         IN [total_errors |-> Len(log),
             by_category |-> t.by_category,
             by_severity |-> t.by_severity,
             recovery_attempts |-> t.recovery_attempts,
             recovery_successes |-> t.recovery_successes,
             recovery_rate |-> RecoveryRate(t.recovery_successes,
                                            t.recovery_attempts)]

\* a query that empties the history it has read
GetErrorStatisticsDraining ==
    /\ error_stats' = Some(ErrorStatistics(error_log))
    /\ error_log' = <<>>
    /\ UNCHANGED <<clock, taskVars, clsVars, wfVars, secVars, valVars, recovery_strategies,
                   error_count, hcallers, hcall, hret, alerts>>

\* get_error_statistics(), called between any two steps of handle_error
GetErrorStatistics ==
    /\ error_stats' = Some(ErrorStatistics(error_log))
    /\ UNCHANGED <<clock, taskVars, errVars, clsVars, wfVars, secVars, valVars>>

\* a second passes
TickSecond ==
    /\ clock \div MsPerSecond < MaxClock
    /\ clock' = clock + MsPerSecond
    /\ UNCHANGED <<taskVars, errVars, clsVars, qryVars, wfVars, secVars, valVars>>

-----------------------------------------------------------------------------
(* N8nWorkflowEngine *)

\* the most calls of create_workflow, and of add_node, connect_nodes and
\* execute_workflow on a workflow the engine holds, in one behaviour
MaxEngineCalls == 5

\* f"wf_{int(datetime.now().timestamp())}"
WorkflowId(now) == now \div MsPerSecond

\* WorkflowStatus
WorkflowStatus == {"idle", "running", "completed", "failed", "paused"}

\* the names workflows are created with
WorkflowNames == {"report"}

\* the workflow ids the operations are called with: those of the
\* workflows created so far, and one that no workflow has yet, the
\* "wf_<second>" of the second to come
WorkflowIds == DOMAIN workflows \cup {WorkflowId(clock) + 1}

\* the node type tags add_node is called with: a built-in one and one that
\* is registered only by register_node_type
NodeTypes == {"gmail", "custom"}

\* the (source, target) node ids connect_nodes is called with: in the
\* order the nodes were added, in reverse order, and naming a node that
\* does not exist
Connections == {<<0, 1>>, <<1, 0>>, <<0, MaxEngineCalls>>}

\* the input_data execute_workflow is called with: the default None, and
\* a value
WorkflowInputs == {None, Some([order |-> 7])}

\* the messages of the faults a node adapter raises
NodeFaults == {"quota exceeded"}

\* self.node_registry as __init__ fills it
BuiltinRegistry ==
    [tag \in {"gmail", "slack", "google_sheets", "http_request"} |->
       CASE tag = "gmail" -> "GmailNode"
         [] tag = "slack" -> "SlackNode"
         [] tag = "google_sheets" -> "GoogleSheetsNode"
         [] tag = "http_request" -> "HTTPRequestNode"]

\* the (tag, class) pairs register_node_type is called with
Registrations == {<<"custom", "CustomNode">>, <<"gmail", "CustomNode">>}

\* d[k] = v on a dict
Bind(d, k, v) == [x \in DOMAIN d \cup {k} |-> IF x = k THEN v ELSE d[x]]

\* Workflow(...) as create_workflow builds it (the description is not
\* modelled: nothing reads it)
NewWorkflow(now, name) ==
    [id |-> WorkflowId(now), name |-> name, nodes |-> <<>>,
     connections |-> <<>>, status |-> "idle", created_at |-> now,
     last_executed |-> None]

\* a node that gets the same id whatever the workflow holds
NewNodeFixedId(workflow, type) == [id |-> 0, type |-> type]

\* WorkflowNode(id=f"node_{len(workflow.nodes)}", type=node_type, ...) (the
\* name, the parameters and the position are not modelled)
NewNode(workflow, type) == [id |-> Len(workflow.nodes), type |-> type]

\* WorkflowConnection(source_node, target_node)
NewConnection(source, target) ==
    [source_node |-> source, target_node |-> target,
     source_output |-> "main", target_input |-> "main"]

\* ValueError(f"Workflow {workflow_id} not found")
NotFound(workflow_id) ==
    [kind |-> "ValueError", text |-> <<"Workflow", workflow_id, "not found">>]

\* the fault a node adapter raises
NodeFault(message) == [kind |-> "Exception", text |-> <<message>>]

\* the nodes and the connections of all Workflow objects
RECURSIVE NodeCount(_)
NodeCount(objs) ==
    IF objs = <<>> THEN 0 ELSE Len(Head(objs).nodes) + NodeCount(Tail(objs))
RECURSIVE ConnectionCount(_)
ConnectionCount(objs) ==
    IF objs = <<>> THEN 0
    ELSE Len(Head(objs).connections) + ConnectionCount(Tail(objs))

\* the flows inside an execute_workflow call
Running == { w \in wcallers : wcall[w].pc # "idle" }

\* the calls made so far that the bound counts
EngineCalls ==
    Len(workflow_objs) + NodeCount(workflow_objs)
      + ConnectionCount(workflow_objs) + Len(execution_history)
      + Cardinality(Running)

\* the frame of an execute_workflow call: pc is "node" while it awaits
\* node_instance.execute(current_data) of the node at position index of the
\* node list of its Workflow object; input_data (the argument of the call)
\* and trace are history fields: trace is the nodes executed so far, each
\* with the adapter class and the input it was given
NoRun == [pc |-> "idle"]

\* how a call of an engine operation ended: it returned record (an
\* execution record, for execute_workflow) or raised exc; workflow_id (the
\* id the call was given, if it takes one), workflow (the Workflow object
\* executed, 0 if none) and trace are history fields
Ended(op, workflow_id, outcome, workflow, record, exc, trace) ==
    [op |-> op, workflow_id |-> workflow_id, outcome |-> outcome,
     workflow |-> workflow, record |-> record, exc |-> exc, trace |-> trace]

NoRunYet == [outcome |-> "none"]

\* flow w is not inside a call
Idle(w) == wcall[w].pc = "idle"

\* a registration that keeps the adapter a tag already has
RegisterIfAbsent(registry, node_type, node_class) ==
    IF node_type \in DOMAIN registry THEN registry
    ELSE Bind(registry, node_type, node_class)

\* self.node_registry[node_type] = node_class
Register(registry, node_type, node_class) ==
    Bind(registry, node_type, node_class)

\* register_node_type(node_type, node_class)
RegisterNodeType(w) ==
    /\ Idle(w)
    /\ \E r \in Registrations :
         node_registry' = Register(node_registry, r[1], r[2])
    /\ wret' = [wret EXCEPT ![w] =
                  Ended("register_node_type", None, "returned", 0, None,
                        None, <<>>)]
    /\ UNCHANGED <<clock, taskVars, errVars, clsVars, qryVars, secVars, valVars, workflow_objs,
                   workflows, execution_history, wcallers, wcall>>

\* create_workflow(name, description)
CreateWorkflow(w) ==
    /\ Idle(w)
    /\ EngineCalls < MaxEngineCalls
    /\ \E name \in WorkflowNames :
         LET workflow == NewWorkflow(clock, name)
         IN /\ workflow_objs' = Append(workflow_objs, workflow)
            /\ workflows' = Bind(workflows, workflow.id,
                                 Len(workflow_objs) + 1)
    /\ wret' = [wret EXCEPT ![w] =
                  Ended("create_workflow", None, "returned", 0, None, None,
                        <<>>)]
    /\ UNCHANGED <<clock, taskVars, errVars, clsVars, qryVars, secVars, valVars, node_registry,
                   execution_history, wcallers, wcall>>

\* an add_node that creates the workflow it does not find
AddNodeCreating(w) ==
    /\ Idle(w)
    /\ EngineCalls < MaxEngineCalls
    /\ \E workflow_id \in WorkflowIds, type \in NodeTypes :
         LET known == workflow_id \in DOMAIN workflows
             objs == IF known THEN workflow_objs
                     ELSE Append(workflow_objs,
                                 [NewWorkflow(clock, "") EXCEPT
                                    !.id = workflow_id])
             o == IF known THEN workflows[workflow_id] ELSE Len(objs)
         IN /\ workflows' = Bind(workflows, workflow_id, o)
            /\ workflow_objs' =
                 [objs EXCEPT ![o].nodes = Append(@, NewNode(objs[o], type))]
            /\ wret' = [wret EXCEPT ![w] =
                          Ended("add_node", Some(workflow_id), "returned",
                                0, None, None, <<>>)]
    /\ UNCHANGED <<clock, taskVars, errVars, clsVars, qryVars, secVars, valVars,
                   node_registry, execution_history, wcallers, wcall>>

\* add_node(workflow_id, node_type, name, parameters, position)
AddNode(w) ==
    /\ Idle(w)
    /\ \E workflow_id \in WorkflowIds, type \in NodeTypes :
         IF workflow_id \notin DOMAIN workflows
         THEN /\ wret' = [wret EXCEPT ![w] =
                            Ended("add_node", Some(workflow_id), "raised",
                                  0, None, Some(NotFound(workflow_id)), <<>>)]
              /\ UNCHANGED workflow_objs
         ELSE LET o == workflows[workflow_id]
              IN /\ EngineCalls < MaxEngineCalls
                 /\ workflow_objs' =
                      [workflow_objs EXCEPT
                         ![o].nodes = Append(@, NewNode(workflow_objs[o],
                                                        type))]
                 /\ wret' = [wret EXCEPT ![w] =
                               Ended("add_node", Some(workflow_id), "returned",
                                     0, None, None, <<>>)]
    /\ UNCHANGED <<clock, taskVars, errVars, clsVars, qryVars, secVars, valVars, workflows,
                   node_registry, execution_history, wcallers, wcall>>

\* connect_nodes(workflow_id, source_node_id, target_node_id)
ConnectNodes(w) ==
    /\ Idle(w)
    /\ \E workflow_id \in WorkflowIds, c \in Connections :
         IF workflow_id \notin DOMAIN workflows
         THEN /\ wret' = [wret EXCEPT ![w] =
                            Ended("connect_nodes", Some(workflow_id), "raised",
                                  0, None, Some(NotFound(workflow_id)), <<>>)]
              /\ UNCHANGED workflow_objs
         ELSE LET o == workflows[workflow_id]
              IN /\ EngineCalls < MaxEngineCalls
                 /\ workflow_objs' =
                      [workflow_objs EXCEPT
                         ![o].connections =
                            Append(@, NewConnection(c[1], c[2]))]
                 /\ wret' = [wret EXCEPT ![w] =
                            Ended("connect_nodes", Some(workflow_id),
                                  "returned",
                                     0, None, None, <<>>)]
    /\ UNCHANGED <<clock, taskVars, errVars, clsVars, qryVars, secVars, valVars, workflows,
                   node_registry, execution_history, wcallers, wcall>>

\* what a node adapter's execute returns: the built-in adapters ignore
\* their input and describe what they did; the model keeps the adapter
\* class and the node
NodeOutput(adapter, node) ==
    [success |-> TRUE, by |-> adapter, node |-> node.id]

\* the execution_record of a completed run (executed_at and execution_time
\* are not modelled)
CompletedRecord(workflow_id, workflow, results) ==
    [workflow_id |-> workflow_id, workflow_name |-> workflow.name,
     status |-> "completed", nodes_executed |-> Cardinality(DOMAIN results),
     results |-> results]

\* a failure record whose status is not one get_statistics counts
FailedRecordAsError(workflow_id, workflow, e) ==
    [workflow_id |-> workflow_id, workflow_name |-> workflow.name,
     status |-> "error", error |-> e.text]

\* the execution_record of a failed run (executed_at is not modelled)
FailedRecord(workflow_id, workflow, e) ==
    [workflow_id |-> workflow_id, workflow_name |-> workflow.name,
     status |-> "failed", error |-> e.text]

\* a completion that leaves last_executed as it was
CompleteWorkflowNoTimestamp(workflow, now) ==
    [workflow EXCEPT !.status = "completed"]

\* workflow.status = WorkflowStatus.COMPLETED;
\* workflow.last_executed = datetime.now()
CompleteWorkflow(workflow, now) ==
    [workflow EXCEPT !.status = "completed", !.last_executed = Some(now)]

\* an execution that visits only the nodes a connection names, once any
\* connection is declared
ExecutionOrderConnected(workflow) ==
    IF workflow.connections = <<>> THEN workflow.nodes
    ELSE SelectSeq(workflow.nodes,
                   LAMBDA n : \E k \in DOMAIN workflow.connections :
                      n.id \in {workflow.connections[k].source_node,
                                workflow.connections[k].target_node})

\* `for node in workflow.nodes`: the nodes in the order execute_workflow
\* visits them
ExecutionOrder(workflow) == workflow.nodes

\* a loop that ends at the first node of an unknown type
NextRegisteredStopping(nodes, i, registry) ==
    IF i > Len(nodes) THEN i
    ELSE IF nodes[i].type \in DOMAIN registry THEN i
    ELSE Len(nodes) + 1

\* sum(1 for r in history if r['status'] == status)
CountStatus(history, status) ==
    Cardinality({ i \in DOMAIN history : history[i].status = status })

\* get_statistics(): the success rate is the fraction
\* <<numerator, denominator>> (average_execution_time is not modelled)
GetStatistics ==
    LET total_executions == Len(execution_history)
        successful == CountStatus(execution_history, "completed")
        failed == CountStatus(execution_history, "failed")
    IN [total_workflows |-> Cardinality(DOMAIN workflows),
        total_executions |-> total_executions,
        successful_executions |-> successful,
        failed_executions |-> failed,
        success_rate |-> IF total_executions > 0
                         THEN <<successful, total_executions>>
                         ELSE <<0, 1>>,
        available_integrations |-> Cardinality(DOMAIN node_registry)]

\* `for node in workflow.nodes` from position i on: the position of the
\* first node whose type is in the registry, or one past the end
RECURSIVE NextRegistered(_, _, _)
NextRegistered(nodes, i, registry) ==
    IF i > Len(nodes) THEN i
    ELSE IF nodes[i].type \in DOMAIN registry THEN i
    ELSE NextRegistered(nodes, i + 1, registry)

\* execute_workflow from position i of its loop to its next await or to
\* its return; objs is the Workflow objects as the call has written them
RunFrom(w, frame, objs, i) ==
    LET o == frame.workflow
        nodes == ExecutionOrder(objs[o])
        j == NextRegistered(nodes, i, node_registry)
    IN IF j <= Len(nodes)
       THEN LET adapter == node_registry[nodes[j].type]
            IN /\ wcall' = [wcall EXCEPT ![w] =
                              [frame EXCEPT
                                 !.pc = "node", !.index = j,
                                 !.adapter = adapter,
                                 !.trace = Append(@,
                                    [node |-> nodes[j].id,
                                     adapter |-> adapter,
                                     input |-> frame.current_data])]]
               /\ workflow_objs' = objs
               /\ UNCHANGED <<execution_history, wret>>
       ELSE LET record == CompletedRecord(frame.workflow_id, objs[o],
                                          frame.results)
            IN /\ workflow_objs' =
                    [objs EXCEPT ![o] = CompleteWorkflow(@, clock)]
               /\ execution_history' = Append(execution_history, record)
               /\ wret' = [wret EXCEPT ![w] =
                             Ended("execute_workflow", Some(frame.workflow_id),
                                   "returned", o,
                                   Some(record), None, frame.trace)]
               /\ wcall' = [wcall EXCEPT ![w] = NoRun]

\* execute_workflow(workflow_id, input_data) up to its first await
ExecuteWorkflow(w) ==
    /\ Idle(w)
    /\ \E workflow_id \in WorkflowIds, input_data \in WorkflowInputs :
         IF workflow_id \notin DOMAIN workflows
         THEN /\ wret' = [wret EXCEPT ![w] =
                            Ended("execute_workflow", Some(workflow_id), "raised",
                                  0, None, Some(NotFound(workflow_id)), <<>>)]
              /\ UNCHANGED <<workflow_objs, execution_history, wcall>>
         ELSE LET o == workflows[workflow_id]
                  frame == [pc |-> "idle", workflow_id |-> workflow_id,
                            workflow |-> o,
                            input_data |-> input_data,
                            results |-> [k \in {} |-> None],
                            current_data |-> input_data, index |-> 0,
                            adapter |-> "none", trace |-> <<>>]
              IN /\ EngineCalls < MaxEngineCalls
                 /\ RunFrom(w, frame,
                            [workflow_objs EXCEPT ![o].status = "running"],
                            1)
    /\ UNCHANGED <<clock, taskVars, errVars, clsVars, qryVars, secVars, valVars, workflows,
                   node_registry, wcallers>>

\* an except branch that returns the failure record instead of raising
NodeRaisedSwallowed(w, e) ==
    LET frame == wcall[w]
        o == frame.workflow
        record == FailedRecord(frame.workflow_id, workflow_objs[o], e)
    IN /\ workflow_objs' = [workflow_objs EXCEPT ![o].status = "failed"]
       /\ execution_history' = Append(execution_history, record)
       /\ wret' = [wret EXCEPT ![w] =
                     Ended("execute_workflow", Some(frame.workflow_id),
                           "returned", o, Some(record), None, frame.trace)]
       /\ wcall' = [wcall EXCEPT ![w] = NoRun]

\* an except branch that stamps last_executed as a completed run does
NodeRaisedStamping(w, e) ==
    LET frame == wcall[w]
        o == frame.workflow
        record == FailedRecord(frame.workflow_id, workflow_objs[o], e)
    IN /\ workflow_objs' = [workflow_objs EXCEPT
                              ![o].status = "failed",
                              ![o].last_executed = Some(clock)]
       /\ execution_history' = Append(execution_history, record)
       /\ wret' = [wret EXCEPT ![w] =
                     Ended("execute_workflow", Some(frame.workflow_id),
                           "raised", o, Some(record),
                           Some(e), frame.trace)]
       /\ wcall' = [wcall EXCEPT ![w] = NoRun]

\* execute_workflow's except branch: the node adapter raised e
NodeRaised(w, e) ==
    LET frame == wcall[w]
        o == frame.workflow
        record == FailedRecord(frame.workflow_id, workflow_objs[o], e)
    IN /\ workflow_objs' = [workflow_objs EXCEPT ![o].status = "failed"]
       /\ execution_history' = Append(execution_history, record)
       /\ wret' = [wret EXCEPT ![w] =
                     Ended("execute_workflow", Some(frame.workflow_id),
                                   "raised", o, Some(record),
                           Some(e), frame.trace)]
       /\ wcall' = [wcall EXCEPT ![w] = NoRun]

\* a loop that hands every node the caller's input
ThreadKeepingInput(current_data, node_result) == current_data

\* current_data = node_result
Thread(current_data, node_result) == Some(node_result)

\* node_instance.execute(current_data) returns or raises
NodeDone(w) ==
    /\ wcall[w].pc = "node"
    /\ \/ LET frame == wcall[w]
              node == ExecutionOrder(workflow_objs[frame.workflow])[frame.index]
              node_result == NodeOutput(frame.adapter, node)
          IN RunFrom(w, [frame EXCEPT
                           !.results = Bind(@, node.id, node_result),
                           !.current_data = Thread(@, node_result)],
                     workflow_objs, frame.index + 1)
       \/ \E message \in NodeFaults : NodeRaised(w, NodeFault(message))
    /\ UNCHANGED <<clock, taskVars, errVars, clsVars, qryVars, secVars, valVars, workflows,
                   node_registry, wcallers>>

-----------------------------------------------------------------------------
(* SecretsManager.get_secret *)

\* the most get_secret calls in one behaviour
MaxSecretCalls == 3

\* the names get_secret is called with
SecretNames == {"api/openai/robocane-prod", "email/roboken-prod"}

\* the SecretString texts the service holds: two JSON documents and a text
\* that is no JSON
SecretStrings ==
    {"{\"api_key\": \"k1\"}", "{\"api_key\": \"k2\"}", "k1"}

\* json.loads(text): the parsed document, or None where it raises
\* JSONDecodeError
JsonLoads(text) ==
    CASE text = "{\"api_key\": \"k1\"}" -> Some([api_key |-> "k1"])
      [] text = "{\"api_key\": \"k2\"}" -> Some([api_key |-> "k2"])
      [] OTHER -> None

\* what the service holds for a name: nothing (get_secret_value raises
\* ResourceNotFoundException), a text secret or a binary secret
NoSecret == [kind |-> "none"]
Responses ==
    {NoSecret} \cup { [kind |-> "SecretString", text |-> s] : s \in SecretStrings }
      \cup {[kind |-> "SecretBinary", bytes |-> "b1"]}

\* the try block of get_secret on the service's answer: the secret, or
\* the exception raised; fault is a call the service fails
ParseResponse(response, fault) ==
    IF fault THEN [outcome |-> "raised", value |-> "EndpointConnectionError"]
    ELSE IF response.kind = "none"
    THEN [outcome |-> "raised", value |-> "ResourceNotFoundException"]
    ELSE IF response.kind = "SecretString"
    THEN IF JsonLoads(response.text) = None
         THEN [outcome |-> "raised", value |-> "JSONDecodeError"]
         ELSE [outcome |-> "returned", value |-> Get(JsonLoads(response.text))]
    ELSE [outcome |-> "returned", value |-> [bytes |-> response.bytes]]

\* a get_secret that asks the service whatever the cache holds
RetrieveUncached(cached, secret_name, response, fault) ==
    LET r == ParseResponse(response, fault)
    IN [outcome |-> r.outcome, value |-> r.value, contacted |-> TRUE,
        cache |-> IF r.outcome = "returned"
                  THEN Bind(cached, secret_name, r.value) ELSE cached]

\* get_secret(secret_name) on the cache `cached`, the service holding
\* response for the name: the outcome, the cache after the call, and
\* whether the service was called (a history field)
Retrieve(cached, secret_name, response, fault) ==
    IF secret_name \in DOMAIN cached
    THEN [outcome |-> "returned", value |-> cached[secret_name],
          contacted |-> FALSE, cache |-> cached]
    ELSE LET r == ParseResponse(response, fault)
         IN [outcome |-> r.outcome, value |-> r.value, contacted |-> TRUE,
             cache |-> IF r.outcome = "returned"
                       THEN Bind(cached, secret_name, r.value) ELSE cached]

\* no get_secret call has ended yet
NoSecretCall == [calls |-> 0, outcome |-> "none"]

\* get_secret(secret_name), called by the one flow that uses the manager
GetSecret ==
    /\ sret.calls < MaxSecretCalls
    /\ \E secret_name \in SecretNames, fault \in BOOLEAN :
         LET r == Retrieve(cache, secret_name, upstream[secret_name], fault)
         IN /\ cache' = r.cache
            /\ service_calls' = IF r.contacted THEN service_calls + 1
                                ELSE service_calls
            /\ sret' = [calls |-> sret.calls + 1, secret_name |-> secret_name,
                        outcome |-> r.outcome, value |-> r.value,
                        contacted |-> r.contacted]
    /\ UNCHANGED <<clock, taskVars, errVars, clsVars, qryVars, wfVars, valVars, upstream>>

\* the secret of a name is created, rotated or deleted in the service
UpstreamChanges ==
    /\ \E secret_name \in SecretNames, response \in Responses :
         /\ upstream[secret_name] # response
         /\ upstream' = [upstream EXCEPT ![secret_name] = response]
    /\ UNCHANGED <<clock, taskVars, errVars, clsVars, qryVars, wfVars, valVars, cache, service_calls, sret>>

-----------------------------------------------------------------------------
(* Initial states *)

InitClock == clock = 0

\* RoboKenSimulator(): an empty queue and table, an executor with no totals
InitTasks ==
    /\ tasks = <<>>
    /\ task_queue = <<>>
    /\ db = [k \in {} |-> None]
    /\ execution_stats = [total_tasks |-> 0, successful_tasks |-> 0,
                          failed_tasks |-> 0]
    /\ callers = {"c1"}
    /\ call = [c \in callers |-> IdleFrame]
    /\ ret = [c \in callers |-> NoReturn]
    /\ cpu = None

\* ErrorHandler(): no history, no strategy
InitErrors ==
    /\ error_log = <<>>
    /\ recovery_strategies = [k \in {} |-> None]
    /\ error_count = 0
    /\ hcallers = {"h1"}
    /\ hcall = [h \in hcallers |-> NoCall]
    /\ hret = [h \in hcallers |-> [pc |-> "none"]]
    /\ alerts = <<>>

InitNoClassify == exception = <<>> /\ classified = None

InitNoQuery == error_stats = None

InitNoValidation == vcommand = <<>> /\ validation = None

\* SecretsManager(): an empty cache, the service holding no secret yet
InitSecrets ==
    /\ cache = [k \in {} |-> None]
    /\ upstream = [n \in SecretNames |-> NoSecret]
    /\ service_calls = 0
    /\ sret = NoSecretCall

\* N8nWorkflowEngine(): no workflow, the built-in adapters, no history
InitWorkflows ==
    /\ workflow_objs = <<>>
    /\ workflows = [k \in {} |-> 0]
    /\ node_registry = BuiltinRegistry
    /\ execution_history = <<>>
    /\ wcallers = {"w1"}
    /\ wcall = [w \in wcallers |-> NoRun]
    /\ wret = [w \in wcallers |-> NoRunYet]

-----------------------------------------------------------------------------
(* Specifications *)

\* the orchestrator, driven by one logical flow
Init ==
    /\ InitClock /\ InitTasks /\ InitErrors /\ InitNoClassify /\ InitNoQuery
    /\ InitSecrets
    /\ InitWorkflows /\ InitNoValidation

Next ==
    \/ \E c \in callers : SubmitTask(c)
    \/ \E c \in callers : ExecuteNextTask(c)
    \/ \E c \in callers : ExecuteAllTasks(c)
    \/ \E c \in callers : LoopStep(c)
    \/ \E c \in callers : AIStep(c)
    \/ \E c \in callers : HandlerStep(c)
    \/ \E c \in callers : UpdateStep(c)
    \/ TickMs

Spec == Init /\ [][Next]_vars

\* the error handler, driven by one logical flow, within one clock second
NextErrors ==
    \/ RegisterRecoveryStrategy
    \/ \E h \in hcallers : HandleError(h)
    \/ \E h \in hcallers : SleepDone(h)
    \/ \E h \in hcallers : OperationDone(h)
    \/ \E h \in hcallers : FallbackDone(h)

SpecErrors == Init /\ [][NextErrors]_vars

\* the strategy tables the statistics are queried under: none registered,
\* a RetryStrategy for network faults, and that with a FallbackStrategy for
\* system faults
StatsTables ==
    LET retry == [kind |-> "retry", max_retries |-> MaxRetries,
                  base_delay |-> CHOOSE d \in BaseDelays : TRUE]
    IN { [k \in {} |-> None],
         [k \in {"network"} |-> retry],
         [k \in {"network", "system"} |->
            IF k = "network" THEN retry ELSE [kind |-> "fallback"]] }

\* an ErrorHandler whose strategies were registered beforehand
InitErrorStats ==
    /\ InitClock /\ InitTasks /\ InitNoClassify /\ InitNoQuery
    /\ InitSecrets
    /\ InitWorkflows /\ InitNoValidation
    /\ error_log = <<>>
    /\ recovery_strategies \in StatsTables
    /\ error_count = 0
    /\ hcallers = {"h1"}
    /\ hcall = [h \in hcallers |-> NoCall]
    /\ hret = [h \in hcallers |-> [pc |-> "none"]]
    /\ alerts = <<>>

\* the error handler and the statistics query
NextErrorStats ==
    \/ \E h \in hcallers : HandleError(h)
    \/ \E h \in hcallers : SleepDone(h)
    \/ \E h \in hcallers : OperationDone(h)
    \/ \E h \in hcallers : FallbackDone(h)
    \/ GetErrorStatistics

SpecErrorStats == InitErrorStats /\ [][NextErrorStats]_vars

\* the error handler while the clock advances
NextErrorsTimed == NextErrors \/ TickSecond

SpecErrorsTimed == Init /\ [][NextErrorsTimed]_vars

\* the workflow engine, driven by one logical flow, while the clock advances
NextWorkflows ==
    \/ \E w \in wcallers : CreateWorkflow(w)
    \/ \E w \in wcallers : AddNode(w)
    \/ \E w \in wcallers : ConnectNodes(w)
    \/ \E w \in wcallers : ExecuteWorkflow(w)
    \/ \E w \in wcallers : NodeDone(w)
    \/ TickSecond

SpecWorkflows == Init /\ [][NextWorkflows]_vars

\* the orchestrator after one submit_task(description, task_type) of any
\* of the six task types has returned
InitDispatch ==
    /\ InitClock /\ InitErrors /\ InitNoClassify /\ InitNoQuery
    /\ InitSecrets
    /\ InitWorkflows /\ InitNoValidation
    /\ \E req \in Requests :
         LET task == NewTask(0, req)
         IN /\ tasks = <<task>>
            /\ db = SaveTask([k \in {} |-> None], task, FALSE).db
    /\ task_queue = <<1>>
    /\ execution_stats = [total_tasks |-> 0, successful_tasks |-> 0,
                          failed_tasks |-> 0]
    /\ callers = {"c1"}
    /\ call = [c \in callers |-> IdleFrame]
    /\ ret = [c \in callers |->
                [op |-> "submit_task", outcome |-> "returned",
                 value |-> Some(1), sql_exc |-> None, queued |-> <<>>]]
    /\ cpu = None

\* execute_next_task on that task
NextDispatch ==
    \/ \E c \in callers : ExecuteNextTask(c)
    \/ \E c \in callers : AIStep(c)
    \/ \E c \in callers : HandlerStep(c)
    \/ \E c \in callers : UpdateStep(c)
    \/ TickMs

SpecDispatch == InitDispatch /\ [][NextDispatch]_vars

\* validate_command on every command of Commands
InitValidate ==
    /\ InitClock /\ InitTasks /\ InitErrors /\ InitNoClassify /\ InitNoQuery
    /\ InitSecrets
    /\ InitWorkflows
    /\ vcommand \in Commands
    /\ validation = None

NextValidate == ValidateStep

SpecValidate == InitValidate /\ [][NextValidate]_vars

\* classify_error on every message of at most MaxWords words
InitClassify ==
    /\ InitClock /\ InitTasks /\ InitErrors /\ InitNoQuery
    /\ InitSecrets
    /\ InitWorkflows /\ InitNoValidation
    /\ exception \in Messages
    /\ classified = None

NextClassify == ClassifyStep

SpecClassify == InitClassify /\ [][NextClassify]_vars

\* the node type lists of the workflow the registry is exercised on
RegistryNodeLists == {<<"gmail", "custom">>, <<"custom", "gmail">>}

\* add_node(workflow.id, type, ...) for each type of the list in turn
RECURSIVE AddNodes(_, _)
AddNodes(workflow, types) ==
    IF types = <<>> THEN workflow
    ELSE AddNodes([workflow EXCEPT
                     !.nodes = Append(@, NewNode(workflow, Head(types)))],
                  Tail(types))

\* an engine after create_workflow and two add_node calls, used by two
\* logical flows
InitRegistry ==
    /\ InitClock /\ InitTasks /\ InitErrors /\ InitNoClassify /\ InitNoQuery
    /\ InitSecrets
    /\ InitNoValidation
    /\ \E types \in RegistryNodeLists :
         workflow_objs = <<AddNodes(NewWorkflow(0, "report"), types)>>
    /\ workflows = [k \in {WorkflowId(0)} |-> 1]
    /\ node_registry = BuiltinRegistry
    /\ execution_history = <<>>
    /\ wcallers = {"w1", "w2"}
    /\ wcall = [w \in wcallers |-> NoRun]
    /\ wret = [w \in wcallers |-> NoRunYet]

\* register_node_type between and during the runs of that workflow
NextRegistry ==
    \/ \E w \in wcallers : RegisterNodeType(w)
    \/ \E w \in wcallers : ExecuteWorkflow(w)
    \/ \E w \in wcallers : NodeDone(w)

SpecRegistry == InitRegistry /\ [][NextRegistry]_vars

\* an ErrorHandler whose strategies were registered beforehand, used by
\* two logical flows
InitErrorsOverlap ==
    /\ InitClock /\ InitTasks /\ InitNoClassify /\ InitNoQuery
    /\ InitSecrets
    /\ InitWorkflows /\ InitNoValidation
    /\ error_log = <<>>
    /\ recovery_strategies \in StatsTables
    /\ error_count = 0
    /\ hcallers = {"h1", "h2"}
    /\ hcall = [h \in hcallers |-> NoCall]
    /\ hret = [h \in hcallers |-> [pc |-> "none"]]
    /\ alerts = <<>>

\* handle_error calls that overlap at their awaits, the statistics query in
\* between, while the clock advances
NextErrorsOverlap ==
    \/ \E h \in hcallers : HandleError(h)
    \/ \E h \in hcallers : SleepDone(h)
    \/ \E h \in hcallers : OperationDone(h)
    \/ \E h \in hcallers : FallbackDone(h)
    \/ GetErrorStatistics
    \/ TickSecond

SpecErrorsOverlap == InitErrorsOverlap /\ [][NextErrorsOverlap]_vars

\* the rows _save_task has written for the tasks from position i on
RECURSIVE SavedFrom(_, _, _)
SavedFrom(d, submitted, i) ==
    IF i > Len(submitted) THEN d
    ELSE SavedFrom(SaveTask(d, submitted[i], FALSE).db, submitted, i + 1)

\* the orchestrator after MaxTasks submit_task calls, one a millisecond,
\* have returned, used by two logical flows
InitTwoCallers ==
    /\ InitErrors /\ InitNoClassify /\ InitNoQuery
    /\ InitSecrets
    /\ InitWorkflows /\ InitNoValidation
    /\ clock = MaxTasks
    /\ \E reqs \in [1..MaxTasks -> CoreRequests] :
         tasks = [i \in 1..MaxTasks |-> NewTask(i - 1, reqs[i])]
    /\ db = SavedFrom([k \in {} |-> None], tasks, 1)
    /\ task_queue = [i \in 1..MaxTasks |-> i]
    /\ execution_stats = [total_tasks |-> 0, successful_tasks |-> 0,
                          failed_tasks |-> 0]
    /\ callers = {"c1", "c2"}
    /\ call = [c \in callers |-> IdleFrame]
    /\ ret = [c \in callers |-> NoReturn]
    /\ cpu = None

\* execute_next_task called by both flows, interleaved at the awaits
NextTwoCallers ==
    \/ \E c \in callers : ExecuteNextTask(c)
    \/ \E c \in callers : AIStep(c)
    \/ \E c \in callers : HandlerStep(c)
    \/ \E c \in callers : UpdateStep(c)

SpecTwoCallers == InitTwoCallers /\ [][NextTwoCallers]_vars

\* get_secret calls while the secrets change in the service
NextSecrets ==
    \/ GetSecret
    \/ UpstreamChanges

SpecSecrets == Init /\ [][NextSecrets]_vars

-----------------------------------------------------------------------------
(* Properties of the orchestrator and the executor (Spec) *)

\* the task a flow is executing, if any
Executing(c) == call[c].pc \in {"ai", "handler", "update"}

\* the status changes a task may make
Lifecycle ==
    { <<"pending", "running">>, <<"running", "completed">>,
      <<"running", "failed">> }

\* C1: a task is created pending, and its status then only moves
\* pending -> running -> completed or pending -> running -> failed: no step
\* makes any other change, so a completed or failed task keeps its status
\* and requires_approval is never reached; no task is ever dropped.
C1_StatusLifecycle ==
    [][ /\ Len(tasks') >= Len(tasks)
        /\ \A t \in 1..Len(tasks') :
             IF t <= Len(tasks)
             THEN \/ tasks'[t].status = tasks[t].status
                  \/ <<tasks[t].status, tasks'[t].status>> \in Lifecycle
             ELSE tasks'[t].status = "pending" ]_vars

\* C1, reached: one task has completed and another has failed
C1_Witness ==
    \E t, u \in 1..Len(tasks) :
      tasks[t].status = "completed" /\ tasks[u].status = "failed"

\* C2: when execute_task has returned after a fault, its result has
\* success false, no output, the fault text as error and the task's id, and
\* the task is failed with the same fault text; whatever an orchestrator
\* call raises is what sqlite raised, never the fault.
C2_FaultBecomesFailedResult ==
    \A c \in callers :
      /\ (call[c].pc = "update" /\ call[c].fault # None) =>
           LET r == Get(call[c].result)
               task == tasks[call[c].task]
           IN /\ r.success = FALSE
              /\ r.output = None
              /\ r.error = call[c].fault
              /\ r.task_id = task.id
              /\ task.status = "failed"
              /\ task.error = call[c].fault
      /\ ret[c].outcome = "raised" =>
           ret[c].sql_exc # None /\ ret[c].value = ret[c].sql_exc

\* C2, reached: execute_task has just returned from its except branch
C2_Witness ==
    \E c \in callers : call[c].pc = "update" /\ call[c].fault # None

C4_NoFaultEscapesExecuteAll ==
    \A c \in callers :
      ret[c].op = "execute_all_tasks" => ret[c].outcome = "returned"

\* C5: what sqlite raises in _save_task or _update_task is raised by the
\* orchestrator call it happened in (submit_task, execute_next_task,
\* execute_all_tasks).
C5_PersistenceFailurePropagates ==
    \A c \in callers :
      ret[c].sql_exc # None =>
        /\ ret[c].outcome = "raised"
        /\ ret[c].value = ret[c].sql_exc

\* C5, reached: execute_next_task has raised what the update raised, after
\* a submit_task whose save had failed (its task has no row)
C5_Witness ==
    \E c \in callers :
      /\ ret[c].op = "execute_next_task"
      /\ ret[c].outcome = "raised"
      /\ ret[c].sql_exc # None
      /\ \E t \in 1..Len(tasks) : tasks[t].id \notin DOMAIN db

\* C6 as stated: the task being executed was submitted before every task
\* still queued, the queue holds each task once in submission order, and
\* execute_all_tasks ends by returning one result per task that was queued
\* when it was called, in that order.
C6_FifoAndDrain ==
    \A c \in callers :
      /\ \A i, j \in 1..Len(task_queue) :
           i < j => task_queue[i] < task_queue[j]
      /\ Executing(c) =>
           \A i \in 1..Len(task_queue) : call[c].task < task_queue[i]
      /\ ret[c].op = "execute_all_tasks" =>
           /\ ret[c].outcome = "returned"
           /\ Len(Get(ret[c].value)) = Len(ret[c].queued)
           /\ \A i \in 1..Len(ret[c].queued) :
                Get(ret[c].value)[i].task_id = tasks[ret[c].queued[i]].id

\* C7 as stated: two tasks never have the same id.
C7_TaskIdsUnique ==
    \A t, u \in 1..Len(tasks) : t # u => tasks[t].id # tasks[u].id

\* C8: when execute_task has returned, result.success is true exactly when
\* the task is completed; then completed_at and result are set and
\* result.output is the task's result; otherwise the task is failed,
\* completed_at and result are unset and error is set.
C8_ResultMatchesTask ==
    \A c \in callers :
      call[c].pc = "update" =>
        LET r == Get(call[c].result)
            task == tasks[call[c].task]
        IN /\ r.success <=> task.status = "completed"
           /\ r.success =>
                /\ task.completed_at # None
                /\ task.result # None
                /\ r.output = task.result
           /\ ~r.success =>
                /\ task.status = "failed"
                /\ task.completed_at = None
                /\ task.result = None
                /\ task.error # None

\* C8, reached: execute_task has just returned a successful result
C8_Witness ==
    \E c \in callers :
      call[c].pc = "update" /\ Get(call[c].result).success

-----------------------------------------------------------------------------
(* Properties of classify_error (SpecClassify) *)

\* the message holds word k, whatever the letter case
Mentions(message, k) ==
    \E i \in 0..(Len(message) - Len(k)) :
      \A j \in 1..Len(k) : LowerChar(message[i + j]) = k[j]

MentionsSome(message, ks) == \E k \in ks : Mentions(message, k)

NetworkWords ==
    { <<"c","o","n","n","e","c","t","i","o","n">>, <<"n","e","t","w","o","r","k">>,
      <<"t","i","m","e","o","u","t">>, <<"u","n","r","e","a","c","h","a","b","l","e">> }
AuthWords ==
    { <<"a","u","t","h">>, <<"p","e","r","m","i","s","s","i","o","n">>,
      <<"u","n","a","u","t","h","o","r","i","z","e","d">>, <<"f","o","r","b","i","d","d","e","n">> }
ValidationWords ==
    { <<"i","n","v","a","l","i","d">>, <<"v","a","l","i","d","a","t","i","o","n">>,
      <<"f","o","r","m","a","t">>, <<"p","a","r","s","e">> }
ResourceWords ==
    { <<"m","e","m","o","r","y">>, <<"d","i","s","k">>,
      <<"r","e","s","o","u","r","c","e">>, <<"l","i","m","i","t">> }

\* C9: classify_error is a first-match-wins list over the message,
\* whatever its letter case: a network word gives (network, medium); else an
\* auth word (authentication, high); else a validation word (validation,
\* low); else a resource word (resource, high); else (system, critical). So
\* 'connection' is always network, 'invalid' is validation unless a network
\* or auth word is there too, and timeout is never returned.
C9_FirstMatchWins ==
    classified # None =>
      LET got == Get(classified)
          net == MentionsSome(exception, NetworkWords)
          auth == MentionsSome(exception, AuthWords)
          val == MentionsSome(exception, ValidationWords)
          res == MentionsSome(exception, ResourceWords)
      IN /\ net => got = <<"network", "medium">>
         /\ (~net /\ auth) => got = <<"authentication", "high">>
         /\ (~net /\ ~auth /\ val) => got = <<"validation", "low">>
         /\ (~net /\ ~auth /\ ~val /\ res) => got = <<"resource", "high">>
         /\ (~net /\ ~auth /\ ~val /\ ~res) => got = <<"system", "critical">>
         /\ Mentions(exception, <<"c","o","n","n","e","c","t","i","o","n">>) =>
              got[1] = "network"
         /\ (Mentions(exception, <<"i","n","v","a","l","i","d">>)
               /\ ~net /\ ~auth) => got[1] = "validation"
         /\ got[1] # "timeout"

\* C9, reached: a message with 'invalid' and a network word was classified
\* as network
C9_Witness ==
    /\ classified = Some(<<"network", "medium">>)
    /\ Mentions(exception, <<"i","n","v","a","l","i","d">>)
    /\ MentionsSome(exception, NetworkWords)

-----------------------------------------------------------------------------
(* Properties of the error handler (SpecErrors) *)

\* C10: handle_error sets recovery_attempted exactly when a strategy is
\* registered for the classified category and an operation was supplied;
\* otherwise no strategy is invoked, nothing is slept or called, and both
\* flags stay false. A call in flight in a strategy has the flag set. In
\* every logged context recovery_successful implies recovery_attempted.
C10_RecoveryAttemptedExactlyWhen ==
    /\ \A h \in hcallers :
         /\ hret[h].pc = "returned" =>
              LET f == hret[h]
                  due == f.registered /\ f.operation
              IN /\ f.context.recovery_attempted <=> due
                 /\ due <=> f.invoked # None
                 /\ ~due =>
                      /\ f.delays = <<>>
                      /\ f.op_calls = 0
                      /\ f.fallback_calls = 0
                      /\ ~f.context.recovery_successful
         /\ hcall[h].pc # "idle" =>
              /\ hcall[h].registered /\ hcall[h].operation
              /\ hcall[h].context.recovery_attempted
    /\ \A i \in 1..Len(error_log) :
         error_log[i].recovery_successful => error_log[i].recovery_attempted

\* C10, reached: a call with a registered strategy but no operation has
\* returned, after another call's recovery was attempted
C10_Witness ==
    /\ \E h \in hcallers :
         /\ hret[h].pc = "returned"
         /\ hret[h].registered /\ ~hret[h].operation
    /\ \E i \in 1..Len(error_log) : error_log[i].recovery_attempted

\* a returned handle_error call of flow h
Returned(h) == hret[h].pc = "returned"

\* a returned call whose strategy was of the kind given
ReturnedFrom(h, kind) == Returned(h) /\ hret[h].invoked = Some(kind)

\* C11: when the invoked strategy itself raised, handle_error has returned
\* (it has no raising exit) a context with recovery_attempted true and
\* recovery_successful false, and that context is the one appended to the
\* history.
C11_RecoveryFaultIsSwallowed ==
    \A h \in hcallers :
      (Returned(h) /\ hret[h].raised) =>
        /\ hret[h].context.recovery_attempted
        /\ ~hret[h].context.recovery_successful
        /\ error_log # <<>>
        /\ error_log[Len(error_log)] = hret[h].context

\* C11, reached: a call whose strategy raised has returned
C11_Witness ==
    \E h \in hcallers :
      /\ Returned(h) /\ hret[h].raised
      /\ hret[h].invoked = Some("base")

\* the handle_error calls in flight
InFlight == { h \in hcallers : hcall[h].pc # "idle" }

\* C12: the history holds one context per completed handle_error call, and
\* the reported total is that number; a step in which a call returns
\* appends exactly the returned context, whatever the recovery outcome, and
\* no other step changes the history: entries are never removed, replaced
\* or reordered.
C12_HistoryAppendOnly ==
    /\ [](Len(error_log) = error_count - Cardinality(InFlight))
    /\ [](ErrorStatistics(error_log).total_errors
            = error_count - Cardinality(InFlight))
    /\ [][ IF \E h \in hcallers : hret'[h] # hret[h]
           THEN \E h \in hcallers :
                  /\ hret'[h] # hret[h]
                  /\ error_log' = Append(error_log, hret'[h].context)
           ELSE error_log' = error_log ]_vars

\* C12, reached: two contexts are in the history, the first of a recovery
\* that succeeded and the second of one that was not attempted, failed or
\* raised
C12_Witness ==
    /\ Len(error_log) = 2
    /\ error_log[1].recovery_successful
    /\ ~error_log[2].recovery_successful
    /\ error_count = 2

C14_RetryStopsAtFirstSuccess ==
    \A h \in hcallers :
      /\ (ReturnedFrom(h, "retry") /\ hret[h].op_faults < hret[h].op_calls) =>
           LET f == hret[h]
           IN /\ f.context.recovery_successful
              /\ f.op_calls = f.op_faults + 1
              /\ f.op_calls = f.attempt + 1
              /\ f.op_calls <= f.strategy.max_retries
              /\ Len(f.delays) = f.op_calls
      /\ hcall[h].pc = "sleep" => hcall[h].op_faults = hcall[h].op_calls
      /\ hcall[h].pc = "op" => hcall[h].op_faults = hcall[h].op_calls - 1

\* C14, reached: a retry has succeeded on an attempt that was not its last
\* one allowed, and went no further
C14_Witness ==
    \E h \in hcallers :
      /\ ReturnedFrom(h, "retry")
      /\ hret[h].context.recovery_successful
      /\ hret[h].op_calls = hret[h].op_faults + 1
      /\ hret[h].op_calls < hret[h].strategy.max_retries

\* C15: a call that went to a FallbackStrategy called the fallback exactly
\* once and the supplied operation never, slept nothing, and reports
\* recovery_successful exactly when the fallback did not raise; no other
\* call touches a fallback.
C15_FallbackOnce ==
    \A h \in hcallers :
      /\ ReturnedFrom(h, "fallback") =>
           /\ hret[h].fallback_calls = 1
           /\ hret[h].op_calls = 0
           /\ hret[h].delays = <<>>
           /\ hret[h].context.recovery_successful
                <=> hret[h].fallback_faults = 0
      /\ hcall[h].pc = "fallback" =>
           hcall[h].fallback_calls = 1 /\ hcall[h].op_calls = 0
      /\ (Returned(h) /\ hret[h].invoked # Some("fallback")) =>
           hret[h].fallback_calls = 0

\* C15, reached: a fallback has raised, for a call that supplied an
\* operation
C15_Witness ==
    \E h \in hcallers :
      /\ ReturnedFrom(h, "fallback")
      /\ hret[h].operation
      /\ hret[h].fallback_faults = 1

\* C16: there is one alert per critical context of the history and none
\* for any other: each alert names a critical context, was emitted when
\* that context was the newest entry of the history, and no context has two.
C16_CriticalAlertOnceAfterLogging ==
    /\ Len(alerts) = Cardinality({ i \in DOMAIN error_log :
                                     error_log[i].severity = "critical" })
    /\ \A a \in DOMAIN alerts :
         /\ alerts[a].history \in DOMAIN error_log
         /\ error_log[alerts[a].history].error_id = alerts[a].error_id
         /\ error_log[alerts[a].history].severity = "critical"
    /\ \A a, b \in DOMAIN alerts :
         a < b => alerts[a].history < alerts[b].history

\* C16, reached: a critical context whose recovery succeeded was alerted
\* after a context of another severity was logged without one
C16_Witness ==
    /\ Len(error_log) = 2
    /\ Len(alerts) = 1
    /\ error_log[1].severity # "critical"
    /\ error_log[2].severity = "critical"
    /\ error_log[2].recovery_successful

-----------------------------------------------------------------------------
(* Properties of get_error_statistics (SpecErrorStats) *)

\* the history the last query read: the history only grows at its end, so
\* it is the first total_errors entries of the present one
Queried == SubSeq(error_log, 1, Get(error_stats).total_errors)

\* the recoveries attempted, and those that succeeded, in a history
Attempts(log) ==
    Cardinality({ i \in DOMAIN log : log[i].recovery_attempted })
Successes(log) ==
    Cardinality({ i \in DOMAIN log :
                    log[i].recovery_attempted /\ log[i].recovery_successful })

\* C17 as stated: the reported rate is 0.0 exactly when no recovery was
\* attempted, and otherwise successes / attempts, within [0, 1].
C17_RateZeroExactlyWhenNoAttempt ==
    error_stats # None =>
      LET rate == Get(error_stats).recovery_rate
      IN /\ rate[1] = 0 <=> Attempts(Queried) = 0
         /\ Attempts(Queried) > 0 =>
              /\ rate[1] * Attempts(Queried) = Successes(Queried) * rate[2]
              /\ 0 <= rate[1] /\ rate[1] <= rate[2]

\* C17, amended: the reported rate is 0.0 when no recovery was attempted,
\* and otherwise successes / attempts, within [0, 1]; so it is 0.0 exactly
\* when no recovery has succeeded, which includes attempts that all failed.
C17_RecoveryRate ==
    error_stats # None =>
      LET rate == Get(error_stats).recovery_rate
      IN /\ rate[2] > 0
         /\ Attempts(Queried) = 0 => rate[1] = 0
         /\ Attempts(Queried) > 0 =>
              rate[1] * Attempts(Queried) = Successes(Queried) * rate[2]
         /\ 0 <= rate[1] /\ rate[1] <= rate[2]
         /\ rate[1] = 0 <=> Successes(Queried) = 0

\* C17, reached: a rate of 0.0 was reported for a history with a recovery
\* that was attempted and failed
C17_Witness ==
    /\ error_stats # None
    /\ Get(error_stats).recovery_rate[1] = 0
    /\ Attempts(Queried) > 0

\* what the statistics report
StatisticsKeys ==
    { "total_errors", "by_category", "by_severity", "recovery_attempts",
      "recovery_successes", "recovery_rate" }

\* C18 as stated: every report holds the six entries, the two recovery
\* counts being 0 when nothing has been handled.
C18_ReportsEveryCount ==
    error_stats # None =>
      /\ StatisticsKeys \subseteq DOMAIN Get(error_stats)
      /\ Get(error_stats).total_errors = 0 =>
           /\ Get(error_stats).recovery_attempts = 0
           /\ Get(error_stats).recovery_successes = 0

\* the sum of the counts of a dict
RECURSIVE SumOf(_)
SumOf(d) ==
    IF DOMAIN d = {} THEN 0
    ELSE LET k == CHOOSE x \in DOMAIN d : TRUE
         IN d[k] + SumOf([x \in DOMAIN d \ {k} |-> d[x]])

\* C19: a query changes neither the history, the handled-fault counter nor
\* the strategy table (nor any call in flight), and reports the length of
\* the history it is called on; in every report the per-category counts
\* sum to the total, as do the per-severity counts, each count is that of
\* the history read, and where the recovery counts are reported,
\* successes <= attempts <= total.
C19_StatisticsSideEffectFree ==
    /\ [][ error_stats' # error_stats =>
             /\ UNCHANGED <<error_log, error_count, recovery_strategies,
                            hcall, hret, alerts>>
             /\ Get(error_stats').total_errors = Len(error_log) ]_vars
    /\ [](error_stats # None =>
            LET st == Get(error_stats)
            IN /\ st.total_errors <= Len(error_log)
               /\ SumOf(st.by_category) = st.total_errors
               /\ SumOf(st.by_severity) = st.total_errors
               /\ \A c \in DOMAIN st.by_category :
                    st.by_category[c] =
                      Cardinality({ i \in DOMAIN Queried :
                                      Queried[i].category = c })
               /\ \A v \in DOMAIN st.by_severity :
                    st.by_severity[v] =
                      Cardinality({ i \in DOMAIN Queried :
                                      Queried[i].severity = v })
               /\ "recovery_attempts" \in DOMAIN st =>
                    /\ st.recovery_attempts = Attempts(Queried)
                    /\ st.recovery_successes = Successes(Queried)
                    /\ st.recovery_successes <= st.recovery_attempts
                    /\ st.recovery_attempts <= st.total_errors)

\* C19, reached: a query was made while a handle_error call was suspended
\* in its backoff, after another call had been logged
C19_Witness ==
    /\ error_stats # None
    /\ Get(error_stats).total_errors = 1
    /\ Len(error_log) = 1
    /\ \E h \in hcallers : hcall[h].pc = "sleep"

-----------------------------------------------------------------------------
(* Properties of the workflow engine (SpecWorkflows) *)

\* the operations that take the id of a workflow
ByWorkflowId == {"add_node", "connect_nodes", "execute_workflow"}

\* the state of the engine
engine == <<workflow_objs, workflows, node_registry, execution_history>>

\* flow w's call ends in this step
Ends(w) == wret'[w] # wret[w]

\* C20: a call of add_node, connect_nodes or execute_workflow with an id
\* the engine holds no workflow for ends by raising the not-found error
\* that names the id, and the step leaves the workflows, their nodes and
\* connections, the registry and the execution history as they were; in
\* turn a call that raises not-found was given an id the engine does not
\* hold
C20_UnknownWorkflowNotFound ==
    [][\A w \in wcallers :
         (Ends(w) /\ wret'[w].op \in ByWorkflowId) =>
           LET r == wret'[w]
               workflow_id == Get(r.workflow_id)
               missing == r.outcome = "raised"
                            /\ r.exc = Some(NotFound(workflow_id))
           IN /\ workflow_id \notin DOMAIN workflows =>
                   /\ missing
                   /\ r.record = None
                   /\ wcall'[w] = NoRun
                   /\ engine' = engine
              /\ missing => workflow_id \notin DOMAIN workflows]_vars

\* C20, reached: execute_workflow was called with an id no workflow has on
\* an engine that holds a workflow with a node and one execution record,
\* and raised not-found
C20_Witness ==
    \E w \in wcallers :
      /\ wret[w].outcome = "raised"
      /\ wret[w].op = "execute_workflow"
      /\ wret[w].exc = Some(NotFound(Get(wret[w].workflow_id)))
      /\ Get(wret[w].workflow_id) \notin DOMAIN workflows
      /\ \E o \in DOMAIN workflow_objs : workflow_objs[o].nodes # <<>>
      /\ Len(execution_history) = 1

\* the ids of the nodes a trace of adapter calls names, in call order
TraceIds(trace) == [i \in DOMAIN trace |-> trace[i].node]

\* the nodes of a node list whose type is in the registry
Registered(nodes, registry) ==
    SelectSeq(nodes, LAMBDA n : n.type \in DOMAIN registry)

\* the ids of a node list
IdsOf(nodes) == [i \in DOMAIN nodes |-> nodes[i].id]

\* s is a prefix of t
IsPrefix(s, t) == Len(s) <= Len(t) /\ s = SubSeq(t, 1, Len(s))

\* flow w's execute_workflow call on a workflow the engine holds ends in
\* this step: after an await, or within the step that called it (the
\* last case is a call that ends exactly as the flow's previous one did)
RunEnds(w) ==
    /\ wret'[w] # NoRunYet
    /\ wret'[w].op = "execute_workflow"
    /\ wret'[w].workflow # 0
    /\ \/ wcall[w].pc = "node" /\ wcall'[w].pc = "idle"
       \/ wcall[w].pc = "idle" /\ Ends(w)
       \/ /\ wcall[w].pc = "idle"
          /\ Len(execution_history') > Len(execution_history)
          /\ wret'[w].record
               = Some(execution_history'[Len(execution_history')])
          /\ wcall' = wcall

\* C21: a run that completes has called the adapters of the workflow's
\* registered nodes in the order the nodes were added, each once, whatever
\* connections are declared; a run in flight or a failed one has called a
\* prefix of them.
C21_InsertionOrder ==
    /\ [][\A w \in wcallers :
            RunEnds(w) =>
              LET r == wret'[w]
                  added == IdsOf(Registered(workflow_objs'[r.workflow].nodes,
                                            node_registry))
              IN IF r.outcome = "returned"
                 THEN TraceIds(r.trace) = added
                 ELSE IsPrefix(TraceIds(r.trace), added)]_vars
    /\ [](\A w \in wcallers :
            wcall[w].pc = "node" =>
              IsPrefix(TraceIds(wcall[w].trace),
                       IdsOf(Registered(
                               workflow_objs[wcall[w].workflow].nodes,
                               node_registry))))

\* C21, reached: a workflow of two registered nodes, with a connection
\* declared from the second to the first, has run to completion, the
\* first node first
C21_Witness ==
    \E w \in wcallers :
      /\ wret[w].outcome = "returned"
      /\ wret[w].op = "execute_workflow"
      /\ TraceIds(wret[w].trace) = <<0, 1>>
      /\ LET workflow == workflow_objs[wret[w].workflow]
         IN /\ Len(workflow.nodes) = 2
            /\ \E k \in DOMAIN workflow.connections :
                 /\ workflow.connections[k].source_node = 1
                 /\ workflow.connections[k].target_node = 0

\* C22: a run that returns has status completed and one result per node of
\* a registered type, keyed by that node's id, and none for any other
\* node, so fewer results than nodes when a node's type is not registered;
\* no adapter is called for such a node, and a run only fails because an
\* adapter that was called raised.
C22_UnregisteredSkipped ==
    /\ [][\A w \in wcallers :
            RunEnds(w) =>
              LET r == wret'[w]
                  workflow == workflow_objs'[r.workflow]
                  known == Registered(workflow.nodes, node_registry)
              IN /\ r.outcome = "returned" =>
                      LET record == Get(r.record)
                      IN /\ record.status = "completed"
                         /\ workflow.status = "completed"
                         /\ DOMAIN record.results =
                              { known[i].id : i \in DOMAIN known }
                         /\ record.nodes_executed = Len(known)
                         /\ Len(known) < Len(workflow.nodes) =>
                              record.nodes_executed < Len(workflow.nodes)
                 /\ r.outcome = "raised" =>
                      /\ r.trace # <<>>
                      /\ Get(r.exc).kind = "Exception"]_vars
    /\ [](\A w \in wcallers :
            wcall[w].pc = "node" =>
              wcall[w].adapter =
                node_registry[workflow_objs[wcall[w].workflow]
                                .nodes[wcall[w].index].type])

\* C22, reached: a workflow whose first node has an unregistered type and
\* whose second node is registered has run to completion with one result
C22_Witness ==
    \E w \in wcallers :
      /\ wret[w].outcome = "returned"
      /\ wret[w].op = "execute_workflow"
      /\ Get(wret[w].record).nodes_executed = 1
      /\ LET nodes == workflow_objs[wret[w].workflow].nodes
         IN /\ Len(nodes) = 2
            /\ nodes[1].type \notin DOMAIN node_registry
            /\ nodes[2].type \in DOMAIN node_registry

\* flow w's run awaits the adapter of its workflow's last node
AtLastNode(w) ==
    /\ wcall[w].pc = "node"
    /\ NextRegistered(workflow_objs[wcall[w].workflow].nodes,
                      wcall[w].index + 1, node_registry)
         > Len(workflow_objs[wcall[w].workflow].nodes)

\* C23: a run that returns leaves its workflow completed with
\* last_executed set to the time of completion, appends exactly one record
\* to the execution history, returns that record, and the record has
\* status completed, the workflow's id and name, and one result per node
\* executed, keyed by the node's id; the other workflows are untouched.  A
\* run whose adapters have not raised can only end by returning.
C23_CompletedRun ==
    [][\A w \in wcallers :
         /\ (RunEnds(w) /\ wret'[w].outcome = "returned") =>
              LET r == wret'[w]
                  o == r.workflow
                  record == Get(r.record)
              IN /\ workflow_objs'[o].status = "completed"
                 /\ workflow_objs'[o].last_executed = Some(clock)
                 /\ \A p \in DOMAIN workflow_objs :
                      p # o => workflow_objs'[p] = workflow_objs[p]
                 /\ execution_history' = Append(execution_history, record)
                 /\ record.status = "completed"
                 /\ record.workflow_id = Get(r.workflow_id)
                 /\ record.workflow_name = workflow_objs[o].name
                 /\ DOMAIN record.results =
                      { r.trace[i].node : i \in DOMAIN r.trace }
                 /\ record.nodes_executed = Len(r.trace)
                 /\ \A i \in DOMAIN r.trace :
                      /\ record.results[r.trace[i].node].success
                      /\ record.results[r.trace[i].node].by
                           = r.trace[i].adapter
         /\ (RunEnds(w) /\ wret'[w].outcome = "raised") =>
              wret'[w].exc \in { Some(NodeFault(m)) : m \in NodeFaults }
         /\ (wcall[w].pc = "node" /\ wcall'[w].pc = "idle"
               /\ execution_history'[Len(execution_history')].status
                    = "completed") =>
              AtLastNode(w)]_vars

\* C23, reached: a workflow of one mail-send node has run to completion
\* and its record holds exactly one result
C23_Witness ==
    \E w \in wcallers :
      /\ wret[w].outcome = "returned"
      /\ wret[w].op = "execute_workflow"
      /\ LET workflow == workflow_objs[wret[w].workflow]
             record == Get(wret[w].record)
         IN /\ Len(workflow.nodes) = 1
            /\ workflow.nodes[1].type = "gmail"
            /\ workflow.status = "completed"
            /\ workflow.last_executed # None
            /\ Cardinality(DOMAIN record.results) = 1
            /\ execution_history = <<record>>

\* the node whose adapter flow w's run awaits
Awaited(w) == workflow_objs[wcall[w].workflow].nodes[wcall[w].index]

\* C24: a step that takes a run past an awaited adapter either stores that
\* node's result, or (the adapter raised) ends the run at once: no further
\* adapter is called, the workflow becomes failed and is otherwise as it
\* was, exactly one record with status failed and the fault's message is
\* appended to the execution history, and the call raises that fault.
C24_NodeFaultFailsRun ==
    [][\A w \in wcallers :
         (wcall[w].pc = "node" /\ wcall'[w] # wcall[w]) =>
           \/ /\ wcall'[w].pc = "node"
              /\ Awaited(w).id \in DOMAIN wcall'[w].results
              /\ execution_history' = execution_history
           \/ /\ RunEnds(w)
              /\ wret'[w].outcome = "returned"
              /\ Get(wret'[w].record).status = "completed"
              /\ Awaited(w).id \in DOMAIN Get(wret'[w].record).results
           \/ /\ RunEnds(w)
              /\ wret'[w].outcome = "raised"
              /\ wcall'[w] = NoRun
              /\ LET r == wret'[w]
                     o == r.workflow
                     record == Get(r.record)
                 IN /\ r.exc \in { Some(NodeFault(m)) : m \in NodeFaults }
                    /\ r.trace = wcall[w].trace
                    /\ r.trace[Len(r.trace)].node = Awaited(w).id
                    /\ workflow_objs' =
                         [workflow_objs EXCEPT ![o].status = "failed"]
                    /\ execution_history' =
                         Append(execution_history, record)
                    /\ record.status = "failed"
                    /\ record.error = Get(r.exc).text
                    /\ record.workflow_id = Get(r.workflow_id)
                    /\ record.workflow_name = workflow_objs[o].name]_vars

\* C24, reached: the adapter of the first of two registered nodes raised;
\* the second was never executed, the workflow is failed and the history
\* holds the one failure record
C24_Witness ==
    \E w \in wcallers :
      /\ wret[w].outcome = "raised"
      /\ wret[w].op = "execute_workflow"
      /\ wret[w].workflow # 0
      /\ Len(wret[w].trace) = 1
      /\ LET workflow == workflow_objs[wret[w].workflow]
         IN /\ Len(Registered(workflow.nodes, node_registry)) = 2
            /\ workflow.status = "failed"
      /\ Len(execution_history) = 1
      /\ execution_history[1].status = "failed"

-----------------------------------------------------------------------------
(* Properties of the executor's totals (Spec) *)

\* flow c's execute_task call returns in this step
TaskEnds(c) == call[c].pc \in {"ai", "handler"} /\ call'[c].pc = "update"

\* C25: in every state total_tasks = successful_tasks + failed_tasks, and
\* get_stats reports the success rate successful_tasks / total_tasks, 0
\* when no task has run, between 0 and 1; the totals change only in a step
\* in which an execute_task call returns, and such a step raises
\* total_tasks by one and, with it, successful_tasks if the call's result
\* is a success and failed_tasks if not.
C25_ExecutorTotals ==
    /\ [](LET s == GetStats(execution_stats)
          IN /\ s.total_tasks = s.successful_tasks + s.failed_tasks
             /\ s.total_tasks = 0 => s.success_rate = <<0, 1>>
             /\ s.total_tasks > 0 =>
                  s.success_rate = <<s.successful_tasks, s.total_tasks>>
             /\ 0 <= s.success_rate[1]
             /\ s.success_rate[1] <= s.success_rate[2])
    /\ [][/\ \A c \in callers :
               TaskEnds(c) =>
                 LET ok == Get(call'[c].result).success
                 IN execution_stats' =
                      [execution_stats EXCEPT
                         !.total_tasks = @ + 1,
                         !.successful_tasks = IF ok THEN @ + 1 ELSE @,
                         !.failed_tasks = IF ok THEN @ ELSE @ + 1]
          /\ execution_stats' # execution_stats =>
               \E d \in callers : TaskEnds(d)]_vars

\* C25, reached: one task has succeeded and one has failed, and the
\* success rate is 1/2
C25_Witness ==
    /\ execution_stats.successful_tasks = 1
    /\ execution_stats.failed_tasks = 1
    /\ GetStats(execution_stats).success_rate = <<1, 2>>

\* C26: in every state get_statistics reports as execution count the
\* length of the execution history, which is the success count plus the
\* fail count, and as success rate the success count over the execution
\* count, 0 when nothing has run; the execution count grows only in a step
\* that ends an execute_workflow call on a workflow the engine holds, and
\* every such step raises it by exactly one.
C26_EngineStatistics ==
    /\ [](LET s == GetStatistics
          IN /\ s.total_executions = Len(execution_history)
             /\ s.total_executions
                  = s.successful_executions + s.failed_executions
             /\ s.total_executions = 0 => s.success_rate = <<0, 1>>
             /\ s.total_executions > 0 =>
                  s.success_rate
                    = <<s.successful_executions, s.total_executions>>
             /\ s.success_rate[1] <= s.success_rate[2])
    /\ [][/\ \A w \in wcallers :
               RunEnds(w) =>
                 GetStatistics'.total_executions
                   = GetStatistics.total_executions + 1
          /\ GetStatistics'.total_executions
               # GetStatistics.total_executions =>
               \E v \in wcallers : RunEnds(v)]_vars

\* C26, reached: one run has completed and one has failed, and the
\* success rate is 1/2
C26_Witness ==
    /\ GetStatistics.total_executions = 2
    /\ GetStatistics.successful_executions = 1
    /\ GetStatistics.failed_executions = 1
    /\ GetStatistics.success_rate = <<1, 2>>

-----------------------------------------------------------------------------
(* Properties of validate_command (SpecValidate) *)

\* the command is empty or made of whitespace only
Blank(s) == \A i \in 1..Len(s) : s[i] \in Whitespace

\* the deny-list entries the command holds, whatever the letter case, by
\* their position in the list
Denied(s) ==
    { j \in 1..Len(DangerousKeywords) : Mentions(s, DangerousKeywords[j]) }

\* C27: validate_command returns (true, no reason) exactly when the
\* command is not blank, has at most 1000 characters and holds no deny-list
\* entry in any letter case; otherwise it returns false with a non-empty
\* reason: the empty-command reason if the command is blank, else the
\* too-long reason if it has more than 1000 characters, else the reason
\* naming the first entry of the deny-list that the command holds.
C27_ValidateCommand ==
    validation # None =>
      LET valid == Get(validation)[1]
          reason == Get(validation)[2]
          blank == Blank(vcommand)
          long == Len(vcommand) > 1000
          denied == Denied(vcommand)
      IN /\ valid <=> (~blank /\ ~long /\ denied = {})
         /\ valid => reason = None
         /\ ~valid => (reason # None /\ Get(reason).text # "")
         /\ blank => reason = Some(ReasonEmpty)
         /\ (~blank /\ long) => reason = Some(ReasonTooLong)
         /\ (~blank /\ ~long /\ denied # {}) =>
              \E j \in denied :
                /\ \A k \in denied : j <= k
                /\ reason = Some(ReasonDangerous(DangerousKeywords[j]))

\* C27, reached: a command that holds 'format' before 'rm -rf', in
\* capitals, was refused for 'rm -rf', the earlier entry of the deny-list
C27_Witness ==
    /\ validation = Some(<<FALSE, Some(ReasonDangerous(DangerousKeywords[1]))>>)
    /\ Denied(vcommand) = {1, 2}
    /\ ~Contains(vcommand, DangerousKeywords[1])
    /\ \E i \in 1..Len(vcommand) :
         /\ Mentions(SubSeq(vcommand, 1, i), DangerousKeywords[2])
         /\ ~Mentions(SubSeq(vcommand, 1, i), DangerousKeywords[1])

-----------------------------------------------------------------------------
(* Properties of execute_task's dispatch (SpecDispatch) *)

\* the handler each task type is to go to, and the action descriptor each
\* handler is to report
OwnHandler ==
    [type \in TaskType |->
       CASE type = "web_automation" -> "_execute_web_automation"
         [] type = "mobile_automation" -> "_execute_mobile_automation"
         [] type = "desktop_automation" -> "_execute_desktop_automation"
         [] type = "workflow_automation" -> "_execute_workflow_automation"
         [] type = "data_processing" -> "_execute_general_automation"
         [] type = "api_integration" -> "_execute_general_automation"]
OwnAction ==
    [handler \in { OwnHandler[type] : type \in TaskType } |->
       CASE handler = "_execute_web_automation" -> "web_navigation"
         [] handler = "_execute_mobile_automation" -> "mobile_interaction"
         [] handler = "_execute_desktop_automation" -> "desktop_operation"
         [] handler = "_execute_workflow_automation" -> "workflow_execution"
         [] handler = "_execute_general_automation" -> "general_automation"]

\* C28: a task is handed to the handler of its type (data-processing and
\* api-integration tasks to the general one), and the output of a task
\* that succeeded carries the action descriptor of that handler and a
\* positive step count.
C28_DispatchAndOutcome ==
    \A c \in callers :
      /\ call[c].pc = "handler" =>
           call[c].handler = Some(OwnHandler[tasks[call[c].task].type])
      /\ (call[c].pc = "update" /\ Get(call[c].result).success) =>
           LET output == Get(Get(call[c].result).output)
           IN /\ output.action = OwnAction[Get(call[c].handler)]
              /\ "steps_executed" \in DOMAIN output
              /\ output.steps_executed > 0

-----------------------------------------------------------------------------
(* Properties of the workflows' node lists (SpecWorkflows) *)

\* C29: in every workflow the node at position i of the node list (from 0)
\* has the id made from i, so the ids of a workflow's nodes are pairwise
\* distinct; a step that adds a node appends exactly one node to exactly
\* one workflow and leaves that workflow's earlier nodes, its connections,
\* its status and every other workflow as they were.
C29_NodeIds ==
    /\ [](\A o \in DOMAIN workflow_objs :
            LET nodes == workflow_objs[o].nodes
            IN /\ \A i \in DOMAIN nodes : nodes[i].id = i - 1
               /\ \A i, j \in DOMAIN nodes :
                    i # j => nodes[i].id # nodes[j].id)
    /\ [][NodeCount(workflow_objs') # NodeCount(workflow_objs) =>
            /\ DOMAIN workflow_objs' = DOMAIN workflow_objs
            /\ \E o \in DOMAIN workflow_objs :
                 LET before == workflow_objs[o]
                     after == workflow_objs'[o]
                 IN /\ Len(after.nodes) = Len(before.nodes) + 1
                    /\ SubSeq(after.nodes, 1, Len(before.nodes))
                         = before.nodes
                    /\ after.nodes[Len(after.nodes)].id = Len(before.nodes)
                    /\ after.connections = before.connections
                    /\ after.status = before.status
                    /\ after = [before EXCEPT !.nodes = after.nodes]
                    /\ \A p \in DOMAIN workflow_objs :
                         p # o => workflow_objs'[p] = workflow_objs[p]
            /\ \E w \in wcallers :
                 /\ wret'[w].op = "add_node"
                 /\ wret'[w].outcome = "returned"]_vars

\* C29, reached: a second node was added to a workflow that already had a
\* node, a connection and a completed run
C29_Witness ==
    \E w \in wcallers, o \in DOMAIN workflow_objs :
      /\ wret[w] # NoRunYet
      /\ wret[w].op = "add_node"
      /\ wret[w].outcome = "returned"
      /\ IdsOf(workflow_objs[o].nodes) = <<0, 1>>
      /\ workflow_objs[o].connections # <<>>
      /\ workflow_objs[o].status = "completed"

\* C30: while a run awaits an adapter, the first adapter called has been
\* given the input_data of the call, and every later one the result of
\* the adapter called just before it; the nodes of an unregistered type
\* between two executed nodes have changed nothing of what is handed on.
C30_DataThreading ==
    \A w \in wcallers :
      wcall[w].pc = "node" =>
        LET frame == wcall[w]
            trace == frame.trace
        IN /\ trace # <<>>
           /\ trace[1].input = frame.input_data
           /\ frame.current_data = trace[Len(trace)].input
           /\ \A i \in 2..Len(trace) :
                /\ trace[i - 1].node \in DOMAIN frame.results
                /\ trace[i].input = Some(frame.results[trace[i - 1].node])
                /\ Get(trace[i].input).node = trace[i - 1].node

\* C30, reached: in a workflow of a registered node, an unregistered one
\* and a registered one, called with an input, the third node's adapter
\* has been given the first node's result
C30_Witness ==
    \E w \in wcallers :
      /\ wcall[w].pc = "node"
      /\ wcall[w].input_data # None
      /\ TraceIds(wcall[w].trace) = <<0, 2>>
      /\ Get(wcall[w].trace[2].input).node = 0
      /\ Len(workflow_objs[wcall[w].workflow].nodes) = 3

-----------------------------------------------------------------------------
(* Properties of the node registry (SpecRegistry) *)

\* flow w's register_node_type call ends in this step
Registers(w) ==
    /\ wret'[w] # NoRunYet
    /\ wret'[w].op = "register_node_type"
    /\ \/ Ends(w)
       \/ node_registry' # node_registry

\* flow w's execute_workflow call reaches the await of a node in this step
ReachesNode(w) == wcall'[w].pc = "node" /\ wcall'[w] # wcall[w]

\* the position in the node list flow w's loop continues from in this step
LoopFrom(w) == IF wcall[w].pc = "node" THEN wcall[w].index + 1 ELSE 1

\* C31: the registry changes only by register_node_type, which binds the
\* tag to the class it is given: for a tag already registered the class
\* replaces the earlier one and the reported count of node types stays,
\* for a new tag the count grows by exactly one; and a run that reaches a
\* node executes it by the class its type is bound to at that moment,
\* having skipped only nodes whose type was not registered then.
C31_RegisterReplaces ==
    [][ /\ node_registry' # node_registry => \E w \in wcallers : Registers(w)
        /\ \A w \in wcallers :
             Registers(w) =>
               \E r \in Registrations :
                 /\ node_registry' = Bind(node_registry, r[1], r[2])
                 /\ node_registry'[r[1]] = r[2]
                 /\ GetStatistics'.available_integrations =
                      IF r[1] \in DOMAIN node_registry
                      THEN GetStatistics.available_integrations
                      ELSE GetStatistics.available_integrations + 1
        /\ \A w \in wcallers :
             ReachesNode(w) =>
               LET f == wcall'[w]
                   nodes == workflow_objs[f.workflow].nodes
                   node == nodes[f.index]
               IN /\ node.type \in DOMAIN node_registry
                  /\ f.adapter = node_registry[node.type]
                  /\ f.trace[Len(f.trace)].adapter = node_registry[node.type]
                  /\ f.trace[Len(f.trace)].node = node.id
                  /\ \A i \in LoopFrom(w)..(f.index - 1) :
                       nodes[i].type \notin DOMAIN node_registry ]_vars

\* a run that skipped the "custom" node is on record, and a later run
\* executed both nodes by the class registered for both tags since, the
\* count of node types being one above the built-in ones
C31_Witness ==
    \E w \in wcallers :
      /\ wret[w] # NoRunYet
      /\ wret[w].op = "execute_workflow"
      /\ wret[w].outcome = "returned"
      /\ Len(wret[w].trace) = 2
      /\ \A i \in 1..2 : wret[w].trace[i].adapter = "CustomNode"
      /\ GetStatistics.available_integrations
           = Cardinality(DOMAIN BuiltinRegistry) + 1
      /\ Len(execution_history) = 2
      /\ execution_history[1].status = "completed"
      /\ execution_history[1].nodes_executed = 1

-----------------------------------------------------------------------------
(* Properties of overlapping handle_error calls (SpecErrorsOverlap) *)

\* the flows inside a handle_error call
Handling == { h \in hcallers : hcall[h].pc # "idle" }

\* C32: the ErrorContexts one ErrorHandler has produced, those in its
\* history and those of the calls still in flight, have pairwise
\* different ids, also when faults are handled within one clock second
\* and when the calls overlap at their awaits.
C32_DistinctErrorIds ==
    /\ \A i, j \in 1..Len(error_log) :
         i # j => error_log[i].error_id # error_log[j].error_id
    /\ \A h \in Handling : \A i \in 1..Len(error_log) :
         hcall[h].context.error_id # error_log[i].error_id
    /\ \A h, g \in Handling :
         h # g => hcall[h].context.error_id # hcall[g].context.error_id
    /\ \A h, g \in hcallers :
         (h # g /\ hret[h].pc = "returned" /\ hret[g].pc = "returned") =>
           hret[h].context.error_id # hret[g].context.error_id

\* two faults handled within the same clock second by calls that
\* overlapped: the call that started second returned first
C32_Witness ==
    /\ Len(error_log) = 2
    /\ error_log[1].error_id.second = error_log[2].error_id.second
    /\ error_log[1].error_id.count = 2
    /\ error_log[2].error_id.count = 1

-----------------------------------------------------------------------------
(* Properties of create_workflow (SpecWorkflows) *)

\* C33: create_workflow never replaces an existing workflow: every call
\* adds an entry under an id the engine did not hold, for a workflow that
\* is idle and has no node and no connection, and leaves the entries there
\* were as they were, so the engine's workflow count equals the number of
\* create_workflow calls, also for calls within one clock second.
C33_CreateNeverReplaces ==
    /\ [][Len(workflow_objs') > Len(workflow_objs) =>
            LET created == workflow_objs'[Len(workflow_objs')]
            IN /\ created.status = "idle"
               /\ created.nodes = <<>>
               /\ created.connections = <<>>
               /\ created.id \notin DOMAIN workflows
               /\ DOMAIN workflows' = DOMAIN workflows \cup {created.id}
               /\ \A k \in DOMAIN workflows : workflows'[k] = workflows[k]]_vars
    /\ [](GetStatistics.total_workflows = Len(workflow_objs))

-----------------------------------------------------------------------------
(* Properties of two callers of execute_next_task (SpecTwoCallers) *)

\* the flows whose execute_task call on task t is in flight
ExecutorsOf(t) ==
    { c \in callers : call[c].pc \in {"ai", "handler"} /\ call[c].task = t }

\* the positions of the queue that hold task t
QueuedAt(t) == { i \in 1..Len(task_queue) : task_queue[i] = t }

\* the tasks execute_task has finished with
Processed == { t \in 1..Len(tasks) : tasks[t].status \in {"completed", "failed"} }

\* C34: with two callers of execute_next_task interleaved at the awaits,
\* every queued task is handed to the executor exactly once: a call takes
\* the task at the front, which is pending, and removes it from the queue
\* in the same step; a task is in the queue (once) exactly while it is
\* pending, a running task is inside exactly one execute_task call, no two
\* flows hold the same task, and the executor's total is the number of
\* tasks it has finished with.
C34_ExactlyOnce ==
    /\ [](\A t \in 1..Len(tasks) :
            /\ Cardinality(QueuedAt(t))
                 = IF tasks[t].status = "pending" THEN 1 ELSE 0
            /\ Cardinality(ExecutorsOf(t))
                 = IF tasks[t].status = "running" THEN 1 ELSE 0)
    /\ [](\A c, d \in callers :
            (c # d /\ Executing(c) /\ Executing(d)) =>
              call[c].task # call[d].task)
    /\ [](execution_stats.total_tasks = Cardinality(Processed))
    /\ [][\A c \in callers :
            (call[c].pc = "idle" /\ call'[c].pc = "ai") =>
              /\ task_queue # <<>>
              /\ call'[c].task = Head(task_queue)
              /\ tasks[Head(task_queue)].status = "pending"
              /\ task_queue' = Tail(task_queue)]_vars

\* both flows are inside execute_task, on different tasks, and the queue
\* is empty
C34_Witness ==
    /\ task_queue = <<>>
    /\ call["c1"].pc = "handler"
    /\ call["c2"].pc = "ai"
    /\ call["c1"].task # call["c2"].task

-----------------------------------------------------------------------------
(* Properties of overlapping execute_workflow calls (SpecRegistry) *)

\* the flows whose execute_workflow call on Workflow object o is in flight
RunsOf(o) == { w \in wcallers : wcall[w].pc # "idle" /\ wcall[w].workflow = o }

\* C35: a workflow's status is running exactly while at least one
\* execute_workflow call on it is in flight, also when two executions of
\* it overlap at their awaits; when none is in flight the status is idle,
\* completed or failed.
C35_RunningWhileInFlight ==
    \A o \in 1..Len(workflow_objs) :
      /\ (workflow_objs[o].status = "running") <=> (RunsOf(o) # {})
      /\ RunsOf(o) = {} =>
           workflow_objs[o].status \in {"idle", "completed", "failed"}

-----------------------------------------------------------------------------
(* The history and the counter of overlapping handle_error calls
   (SpecErrorsOverlap) *)

\* C36: when handle_error calls overlap at their awaits, the history is
\* never longer than the handled-fault counter: it is shorter by the
\* number of calls in flight, so the two are equal whenever no call is in
\* flight; the history holds no context of a call still in flight, and a
\* statistics query made in between reports the history of that moment,
\* that is, the contexts of the calls that have returned.
C36_HistoryAndCounter ==
    /\ [](Len(error_log) <= error_count)
    /\ [](Len(error_log) + Cardinality(Handling) = error_count)
    /\ [](Handling = {} => Len(error_log) = error_count)
    /\ [](\A h \in Handling : \A i \in 1..Len(error_log) :
            error_log[i] # hcall[h].context
              /\ error_log[i].error_id.count # hcall[h].context.error_id.count)
    /\ [][error_stats' # error_stats =>
            /\ error_stats' = Some(ErrorStatistics(error_log))
            /\ Get(error_stats').total_errors
                 = error_count - Cardinality(Handling)
            /\ error_log' = error_log]_vars

\* a query made while the call that started first was suspended in its
\* recovery and the call that started second had returned: it reported
\* one fault, the counter being two
C36_Witness ==
    /\ error_stats # None
    /\ Get(error_stats).total_errors = 1
    /\ error_count = 2
    /\ Len(error_log) = 1
    /\ error_log[1].error_id.count = 2
    /\ \E h \in Handling : hcall[h].pc = "sleep"

-----------------------------------------------------------------------------
(* Properties of submit_task when the save fails (Spec) *)

\* flow c's submit_task call ends in this step
Submits(c) ==
    /\ call[c].pc = "idle" /\ call'[c].pc = "idle"
    /\ ret'[c].op = "submit_task"
    /\ \/ ret'[c] # ret[c]
       \/ Len(tasks') > Len(tasks)

\* C37: submit_task puts the new pending task at the back of the queue
\* whether or not the save then fails: a call that raises what the
\* database raised has written no row and has queued its task all the
\* same; a pending task stays in the queue, so the task is taken by an
\* execute_next_task once the tasks before it have been taken.
C37_QueuedBeforeSaved ==
    /\ [][\A c \in callers :
            Submits(c) =>
              LET t == Len(tasks')
              IN /\ t = Len(tasks) + 1
                 /\ tasks'[t].status = "pending"
                 /\ task_queue' = Append(task_queue, t)
                 /\ ret'[c].outcome = "raised" =>
                      /\ ret'[c].sql_exc # None
                      /\ db' = db]_vars
    /\ [](\A t \in 1..Len(tasks) :
            tasks[t].status = "pending" =>
              \E i \in 1..Len(task_queue) : task_queue[i] = t)

\* execute_next_task has returned the successful result of a task that
\* has no row: its save had failed
C37_Witness ==
    \E c \in callers :
      /\ ret[c].op = "execute_next_task"
      /\ ret[c].outcome = "returned"
      /\ ret[c].value # None
      /\ \E t \in 1..Len(tasks) :
           /\ tasks[t].id \notin DOMAIN db
           /\ tasks[t].status = "completed"
           /\ Get(ret[c].value).success
           /\ Get(ret[c].value).task_id = tasks[t].id

-----------------------------------------------------------------------------
(* The frame of a failed run (SpecWorkflows) *)

\* flow w's execute_workflow call ends in this step by raising the fault
\* of a node adapter
RunFails(w) ==
    /\ wcall[w].pc = "node" /\ wcall'[w].pc = "idle"
    /\ wret'[w].outcome = "raised"

\* C38: a run that fails changes nothing of its workflow but the status:
\* its first step makes the workflow running, its steps from node to node
\* leave all workflows and the history as they are, and its last step
\* makes the workflow failed and appends one record to the execution
\* history; the last-executed timestamp, the node list and the connection
\* list are those of before the run, and the dict of workflows, the
\* registry and all other workflows are untouched.
C38_FailedRunFrame ==
    [][\A w \in wcallers :
         /\ (wcall[w].pc = "idle" /\ wcall'[w].pc = "node") =>
              /\ workflow_objs' =
                   [workflow_objs EXCEPT ![wcall'[w].workflow].status = "running"]
              /\ execution_history' = execution_history
         /\ (wcall[w].pc = "node" /\ wcall'[w].pc = "node") =>
              /\ workflow_objs' = workflow_objs
              /\ execution_history' = execution_history
         /\ RunFails(w) =>
              LET o == wcall[w].workflow
                  before == workflow_objs[o]
                  after == workflow_objs'[o]
              IN /\ after.status = "failed"
                 /\ after.last_executed = before.last_executed
                 /\ after.nodes = before.nodes
                 /\ after.connections = before.connections
                 /\ workflow_objs' = [workflow_objs EXCEPT ![o] = after]
                 /\ [after EXCEPT !.status = before.status] = before
                 /\ Len(execution_history') = Len(execution_history) + 1
                 /\ SubSeq(execution_history', 1, Len(execution_history))
                      = execution_history
                 /\ execution_history'[Len(execution_history')].status
                      = "failed"
                 /\ UNCHANGED <<workflows, node_registry>>]_vars

\* a workflow that completed in an earlier second has failed in a later
\* run: it is failed and its last-executed timestamp is still that of the
\* completed run
C38_Witness ==
    \E w \in wcallers :
      /\ wret[w].outcome = "raised"
      /\ wret[w].op = "execute_workflow"
      /\ wret[w].workflow # 0
      /\ Len(execution_history) = 2
      /\ execution_history[1].status = "completed"
      /\ execution_history[2].status = "failed"
      /\ LET workflow == workflow_objs[wret[w].workflow]
         IN /\ workflow.status = "failed"
            /\ workflow.last_executed # None
            /\ Get(workflow.last_executed) < clock
            /\ workflow.nodes # <<>>

-----------------------------------------------------------------------------
(* Properties of SecretsManager.get_secret (SpecSecrets) *)

\* a get_secret call ends in this step
SecretCallEnds == sret'.calls = sret.calls + 1

\* C39: get_secret caches successes only. A call for a name the cache
\* holds returns the cached value without calling the service, whatever
\* the service holds by now; a call for a name it does not hold calls the
\* service once, and either returns the secret and caches it under the
\* name, or raises and leaves the cache as it was, so that the next call
\* for the name calls the service again. A cached value is never changed
\* or removed, and the cache changes in no other step.
C39_CachesSuccessesOnly ==
    [][ /\ SecretCallEnds =>
             LET r == sret'
                 n == r.secret_name
             IN IF n \in DOMAIN cache
                THEN /\ r.outcome = "returned"
                     /\ r.value = cache[n]
                     /\ ~r.contacted
                     /\ service_calls' = service_calls
                     /\ cache' = cache
                ELSE /\ r.contacted
                     /\ service_calls' = service_calls + 1
                     /\ r.outcome \in {"returned", "raised"}
                     /\ r.outcome = "returned" =>
                          /\ DOMAIN cache' = DOMAIN cache \cup {n}
                          /\ cache'[n] = r.value
                     /\ r.outcome = "raised" =>
                          /\ cache' = cache
                          /\ n \notin DOMAIN cache'
        /\ \A n \in DOMAIN cache :
             n \in DOMAIN cache' /\ cache'[n] = cache[n]
        /\ ~SecretCallEnds =>
             cache' = cache /\ service_calls' = service_calls ]_vars

\* the last call returned the cached secret of a name without calling the
\* service, which by now holds another secret for the name; of the two
\* calls before it, both of which called the service, one raised and
\* cached nothing
C39_Witness ==
    /\ sret.calls = 3
    /\ sret.outcome = "returned"
    /\ ~sret.contacted
    /\ service_calls = 2
    /\ DOMAIN cache = {sret.secret_name}
    /\ sret.value = cache[sret.secret_name]
    /\ upstream[sret.secret_name].kind = "SecretString"
    /\ JsonLoads(upstream[sret.secret_name].text) # None
    /\ Get(JsonLoads(upstream[sret.secret_name].text)) # sret.value

=============================================================================
